---------------------------- MODULE Spec2Model ----------------------------
(***************************************************************************)
(* State-machine model of the udevd event broker (src/udev/udevd.c): the   *)
(* event queue with its blocking relation and memoized scan, the worker    *)
(* pool, the reactor loop of main() and its handlers, and the environment  *)
(* the broker talks to (kernel netlink socket, worker subprocesses, the    *)
(* worker result socket, signals, the control socket, inotify).            *)
(*                                                                         *)
(* Two specifications are defined:                                         *)
(*   Spec     - the whole daemon: reactor loop plus environment.           *)
(*   SpecBusy - the event queue alone (insert at the tail in seqnum order, *)
(*              event_free of any entry, is_devpath_busy on any entry),    *)
(*              over a wide set of device attribute combinations.          *)
(***************************************************************************)
EXTENDS Integers, Sequences, FiniteSets, TLC

(***************************************************************************)
(* Bounds of the model.                                                    *)
(***************************************************************************)
\* uevents the kernel emits in one behaviour of Spec
MaxSeq == 3
\* uevents inserted in one behaviour of SpecBusy
MaxBusy == 3
\* process ids available to worker subprocesses; also the largest cap
\* SET_MAX_CHILDREN / --children-max may set
MaxChildren == 2
\* inputs from outside in one behaviour of Spec: uevents the kernel emits on
\* its own, administrative inputs (control messages, SIGTERM/SIGHUP, changed
\* rule files, closed device nodes) and faults (a failing fork, unicast send
\* or rule load, a crashing worker, an event outliving a timeout)
MaxInputs == 3

(***************************************************************************)
(* Values.                                                                 *)
(***************************************************************************)
\* a NULL const char * (no devpath_old)
NULL == <<>>
\* a NULL struct worker * (pids are positive)
NO_WORKER == 0
\* a NULL struct event * (seqnums are not negative)
NO_EVENT == -1
\* the terminating NUL a C string holds after its last character
NUL == "\\0"

EVENT_QUEUED == "EVENT_QUEUED"
EVENT_RUNNING == "EVENT_RUNNING"
EVENT_UNDEF == "EVENT_UNDEF"

WORKER_RUNNING == "WORKER_RUNNING"
WORKER_IDLE == "WORKER_IDLE"
WORKER_KILLED == "WORKER_KILLED"

\* minor(devnum), taken for major(devnum)
major_is_minor(devnum) == devnum[2]

\* dev_t as the pair <<major, minor>>; makedev(0, 0) is dev_t 0
major(devnum) == devnum[1]

MIN(a, b) == IF a < b THEN a ELSE b

\* s[i] read one character early
CharAt_one_early(s, i) == IF 1 <= i /\ i <= Len(s) THEN s[i] ELSE NUL

\* s[i] of a C string, 0-based: the character, or the terminating NUL
CharAt(s, i) == IF i + 1 <= Len(s) THEN s[i + 1] ELSE NUL

\* memcmp(a, b, n) == 0 for n <= strlen(a), strlen(b)
memcmp_eq(a, b, n) == \A k \in 1..n : a[k] = b[k]

(***************************************************************************)
(* Devices: the attributes of a uevent that event_queue_insert captures.   *)
(* A devpath is the sequence of its characters.                            *)
(***************************************************************************)
Device(devpath, devpath_old, devnum, is_block, ifindex) ==
    [devpath |-> devpath, devpath_old |-> devpath_old, devnum |-> devnum,
     is_block |-> is_block, ifindex |-> ifindex]

P_a == <<"/", "a">>
P_a_b == <<"/", "a", "/", "b">>
P_ab == <<"/", "a", "b">>

Dev_a == Device(P_a, NULL, <<0, 0>>, FALSE, 0)
Dev_a_b == Device(P_a_b, NULL, <<0, 0>>, FALSE, 0)
Dev_ab == Device(P_ab, NULL, <<0, 0>>, FALSE, 0)
Dev_a_blk == Device(P_a, NULL, <<8, 0>>, TRUE, 0)
Dev_a_b_blk == Device(P_a_b, NULL, <<8, 1>>, TRUE, 0)
Dev_ab_blk == Device(P_ab, NULL, <<8, 1>>, TRUE, 0)
Dev_ab_chr == Device(P_ab, NULL, <<8, 1>>, FALSE, 0)
Dev_a_b_m0 == Device(P_a_b, NULL, <<0, 1>>, FALSE, 0)
Dev_ab_m0 == Device(P_ab, NULL, <<0, 1>>, FALSE, 0)
Dev_a_net == Device(P_a, NULL, <<0, 0>>, FALSE, 2)
Dev_ab_ren == Device(P_ab, P_a_b, <<0, 0>>, FALSE, 2)
Dev_ab_net == Device(P_ab, NULL, <<0, 0>>, FALSE, 3)
Dev_a_b_ren == Device(P_a_b, P_ab, <<0, 0>>, FALSE, 0)

\* uevents the kernel emits in Spec
Devices == {Dev_a_blk, Dev_a_b_blk, Dev_ab_ren}

\* what synthesize_change makes the kernel emit for a closed device node:
\* nothing (the partition table was re-read), "change" for the device, or
\* "change" for a disk and its partition
Synthesized == {<<>>, <<Dev_a_blk>>, <<Dev_a_b_blk>>, <<Dev_a_blk, Dev_a_b_blk>>}

\* uevents inserted in SpecBusy
BusyDevices ==
    {Dev_a, Dev_a_b, Dev_ab, Dev_a_blk, Dev_a_b_blk, Dev_ab_blk, Dev_ab_chr,
     Dev_a_b_m0, Dev_ab_m0, Dev_a_net, Dev_ab_ren, Dev_ab_net, Dev_a_b_ren}

\* process ids of worker subprocesses
PIDS == 1..MaxChildren

VARIABLES
    \* ---- broker (udevd main process) ----
    event_list,        \* the event queue, head first
    workers,           \* the worker map: pid -> struct worker
    arg_children_max,
    stop_exec_queue,
    reload,
    udev_exit,
    rules,             \* TRUE while the compiled rule set is loaded (rules != NULL)
    monitor,           \* TRUE while the control, netlink and inotify sources are registered
    queue_file,        \* TRUE while /run/udev/queue exists
    properties_list,   \* the properties set by SET_ENV: key -> value
    pc,                \* position of main() in its reactor loop
    ev,                \* the sources epoll_wait reported ready
    \* ---- environment ----
    kernel_sent,       \* devices of the uevents the kernel has emitted; seqnum = index
    nl_recv,           \* how many of them the broker has received from its netlink socket
    worker_watch,      \* completion datagrams pending on the worker result socket
    child,             \* the worker subprocesses: pid -> process state
    sigpending,        \* signals pending on the broker's signalfd
    ctrl_queue,        \* control messages pending on the control socket
    inotify_queue,     \* inotify events pending on fd_inotify
    inputs,            \* inputs from outside made so far
    \* ---- history ----
    started,           \* seqnums in the order worker_attach_event stamped start_usec
    pass,              \* what the last event_queue_start pass met
    reaped,            \* the workers on_sigchld freed with an event attached
    published,         \* seqnums of the devices workers sent to the sink
    \* ---- one worker subprocess, statement by statement ----
    wproc              \* the child of worker_spawn: position, locals, channels

brokerVars ==
    <<event_list, workers, arg_children_max, stop_exec_queue, reload,
      udev_exit, rules, monitor, queue_file, properties_list, pc, ev>>
envVars ==
    <<kernel_sent, nl_recv, worker_watch, child, sigpending, ctrl_queue,
      inotify_queue, inputs>>
histVars == <<started, pass, reaped, published>>
vars == <<brokerVars, envVars, histVars, wproc>>

(***************************************************************************)
(* The event queue.                                                        *)
(***************************************************************************)
\* event_queue_insert: the struct event built from a device, appended at the tail
new_event(dev, seqnum) ==
    [seqnum |-> seqnum,
     devpath |-> dev.devpath,
     devpath_old |-> dev.devpath_old,
     devnum |-> dev.devnum,
     is_block |-> dev.is_block,
     ifindex |-> dev.ifindex,
     state |-> EVENT_QUEUED,
     delaying_seqnum |-> 0,
     worker |-> NO_WORKER,
     age |-> "young",
     warned |-> FALSE]

event_queue_insert(list, dev, seqnum) == Append(list, new_event(dev, seqnum))

\* the memo left one seqnum behind the blocker
BusyResult_memo_behind(ret, delaying) ==
    [ret |-> ret, delaying_seqnum |-> IF ret THEN delaying + 1 ELSE delaying]

\* what one call of is_devpath_busy returns and what it leaves in
\* event->delaying_seqnum
BusyResult(ret, delaying) == [ret |-> ret, delaying_seqnum |-> delaying]

\* the body of the udev_list_node_foreach loop of is_devpath_busy, from list
\* position k on
RECURSIVE busy_loop(_, _, _)
busy_loop(list, event, k) ==
    IF k > Len(list)
    THEN BusyResult(FALSE, event.delaying_seqnum)
    ELSE
    LET loop_event == list[k]
        common == MIN(Len(loop_event.devpath), Len(event.devpath))
    IN  \* we already found a later event, earlier can not block us
        IF loop_event.seqnum < event.delaying_seqnum
        THEN busy_loop(list, event, k + 1)
        \* event we checked earlier still exists
        ELSE IF loop_event.seqnum = event.delaying_seqnum
        THEN BusyResult(TRUE, event.delaying_seqnum)
        \* found ourself, no later event can block us
        ELSE IF loop_event.seqnum >= event.seqnum
        THEN BusyResult(FALSE, event.delaying_seqnum)
        \* check major/minor
        ELSE IF /\ major(event.devnum) # 0
                /\ event.devnum = loop_event.devnum
                /\ event.is_block = loop_event.is_block
        THEN BusyResult(TRUE, event.delaying_seqnum)
        \* check network device ifindex
        ELSE IF event.ifindex # 0 /\ event.ifindex = loop_event.ifindex
        THEN BusyResult(TRUE, event.delaying_seqnum)
        \* check our old name
        ELSE IF event.devpath_old # NULL /\ loop_event.devpath = event.devpath_old
        THEN BusyResult(TRUE, loop_event.seqnum)
        \* one devpath is contained in the other?
        ELSE IF ~memcmp_eq(loop_event.devpath, event.devpath, common)
        THEN busy_loop(list, event, k + 1)
        \* identical device event found
        ELSE IF Len(loop_event.devpath) = Len(event.devpath)
        THEN IF /\ major(event.devnum) # 0
                /\ \/ event.devnum # loop_event.devnum
                   \/ event.is_block # loop_event.is_block
             THEN busy_loop(list, event, k + 1)
             ELSE IF event.ifindex # 0 /\ event.ifindex # loop_event.ifindex
             THEN busy_loop(list, event, k + 1)
             ELSE BusyResult(TRUE, loop_event.seqnum)
        \* parent device event found
        ELSE IF CharAt(event.devpath, common) = "/"
        THEN BusyResult(TRUE, loop_event.seqnum)
        \* child device event found
        ELSE IF CharAt(loop_event.devpath, common) = "/"
        THEN BusyResult(TRUE, loop_event.seqnum)
        \* no matching device
        ELSE busy_loop(list, event, k + 1)

\* is_devpath_busy with the scan starting behind the head of the list
is_devpath_busy_behind_head(list, event) == busy_loop(list, event, 2)

\* is_devpath_busy finding no event busy
is_devpath_busy_never(list, event) == BusyResult(FALSE, event.delaying_seqnum)

is_devpath_busy(list, event) == busy_loop(list, event, 1)

(***************************************************************************)
(* Workers.  A pass of event_queue_start works on the record               *)
(*   [list, workers, child, started, failed, aborted]                      *)
(* (event list, worker map, subprocesses, dispatch history, how many forks *)
(* and unicast sends have failed so far, whether an assert has failed).    *)
(***************************************************************************)
Worker(state, event) == [state |-> state, event |-> event]

\* a worker subprocess: what it does (st), the device it works on (dev), the
\* devices waiting on its unicast socket (rx), the signals sent to it and not
\* yet acted on (sig), its exit status once it is a zombie
Child(st, dev, rx, sig, status) ==
    [st |-> st, dev |-> dev, rx |-> rx, sig |-> sig, status |-> status]

\* position of the event with this seqnum in the list, 0 if it is not there
IndexOf(list, seqnum) ==
    IF \E k \in 1..Len(list) : list[k].seqnum = seqnum
    THEN CHOOSE k \in 1..Len(list) : list[k].seqnum = seqnum
    ELSE 0

RemoveAt(list, k) == SubSeq(list, 1, k - 1) \o SubSeq(list, k + 1, Len(list))

\* kill(pid, sig): the signal becomes pending on a live process
kill(ch, pid, sig) ==
    IF pid \in DOMAIN ch /\ ch[pid].st # "zombie"
    THEN [ch EXCEPT ![pid].sig = @ \cup {sig}]
    ELSE ch

\* event_free without its test for NULL: it unlinks the first event then
event_free_no_null_test(list, W, seqnum) ==
    LET k == IF seqnum = NO_EVENT THEN MIN(1, Len(list)) ELSE IndexOf(list, seqnum) IN
    IF k = 0
    THEN <<list, W>>
    ELSE <<RemoveAt(list, k),
           IF list[k].worker # NO_WORKER
           THEN [W EXCEPT ![list[k].worker].event = NO_EVENT]
           ELSE W>>

\* event_free leaving event->worker->event as it is
event_free_keep_link(list, W, seqnum) ==
    LET k == IndexOf(list, seqnum) IN
    IF seqnum = NO_EVENT \/ k = 0 THEN <<list, W>> ELSE <<RemoveAt(list, k), W>>

\* event_free(event), event given by its seqnum: unlink it from the list and
\* clear the back-link of its worker.  Gives <<list, workers>>.
event_free(list, W, seqnum) ==
    LET k == IndexOf(list, seqnum) IN
    IF seqnum = NO_EVENT \/ k = 0
    THEN <<list, W>>
    ELSE <<RemoveAt(list, k),
           IF list[k].worker # NO_WORKER
           THEN [W EXCEPT ![list[k].worker].event = NO_EVENT]
           ELSE W>>

\* worker_free putting the event of the worker back into the queue
worker_free_retry(list, W, pid) ==
    LET k == IndexOf(list, W[pid].event) IN
    <<IF W[pid].event = NO_EVENT \/ k = 0
      THEN list
      ELSE [list EXCEPT ![k].state = EVENT_QUEUED, ![k].worker = NO_WORKER],
      [p \in DOMAIN W \ {pid} |-> W[p]]>>

\* worker_free(worker): remove it from the map and free its event.
\* Gives <<list, workers>>.
worker_free(list, W, pid) ==
    LET r == event_free(list, W, W[pid].event) IN
    <<r[1], [p \in DOMAIN r[2] \ {pid} |-> r[2][p]]>>

\* workers_free(): worker_free for every worker, from worker pid on.
\* Gives <<list, workers>>.
RECURSIVE workers_free(_, _, _)
workers_free(list, W, pid) ==
    IF pid > MaxChildren
    THEN <<list, W>>
    ELSE IF pid \notin DOMAIN W
    THEN workers_free(list, W, pid + 1)
    ELSE LET r == worker_free(list, W, pid) IN workers_free(r[1], r[2], pid + 1)

\* worker_attach_event leaving worker->event as it is
worker_attach_event_no_link(s, pid, k) ==
    [s EXCEPT
        !.aborted = \/ @
                    \/ s.list[k].worker # NO_WORKER
                    \/ s.workers[pid].event # NO_EVENT,
        !.workers = [@ EXCEPT ![pid].state = WORKER_RUNNING],
        !.list = [@ EXCEPT ![k].state = EVENT_RUNNING,
                            ![k].age = "young",
                            ![k].warned = FALSE,
                            ![k].worker = pid],
        !.started = Append(@, s.list[k].seqnum)]

\* worker_attach_event(worker, event) on the pass record s; k is the list
\* position of the event.  A failing assert aborts the daemon.
worker_attach_event(s, pid, k) ==
    [s EXCEPT
        !.aborted = \/ @
                    \/ s.list[k].worker # NO_WORKER
                    \/ s.workers[pid].event # NO_EVENT,
        !.workers = [@ EXCEPT ![pid] = Worker(WORKER_RUNNING, s.list[k].seqnum)],
        !.list = [@ EXCEPT ![k].state = EVENT_RUNNING,
                            ![k].age = "young",
                            ![k].warned = FALSE,
                            ![k].worker = pid],
        !.started = Append(@, s.list[k].seqnum)]

\* worker_kill() signalling the workers already Killed as well
RECURSIVE worker_kill_loop_again(_, _, _)
worker_kill_loop_again(W, ch, pid) ==
    IF pid > MaxChildren
    THEN <<W, ch>>
    ELSE IF pid \notin DOMAIN W
    THEN worker_kill_loop_again(W, ch, pid + 1)
    ELSE worker_kill_loop_again([W EXCEPT ![pid].state = WORKER_KILLED],
                                kill(ch, pid, "SIGTERM"), pid + 1)

\* worker_kill(): SIGTERM to every worker not yet Killed.  Gives <<workers, child>>.
RECURSIVE worker_kill_loop(_, _, _)
worker_kill_loop(W, ch, pid) ==
    IF pid > MaxChildren
    THEN <<W, ch>>
    ELSE IF pid \notin DOMAIN W \/ W[pid].state = WORKER_KILLED
    THEN worker_kill_loop(W, ch, pid + 1)
    ELSE worker_kill_loop([W EXCEPT ![pid].state = WORKER_KILLED],
                          kill(ch, pid, "SIGTERM"), pid + 1)

\* worker_kill() leaving the workers as they are
worker_kill_none(W, ch) == <<W, ch>>

\* worker_kill dropping the records of the workers it signals
worker_kill_forget(W, ch) == <<<<>>, ch>>

worker_kill(W, ch) == worker_kill_loop(W, ch, 1)

\* the pid fork() returns: a process id no live or unreaped process holds
FreePids(ch) == PIDS \ DOMAIN ch

\* worker_spawn(event): fork a subprocess seeded with the event; in the
\* parent, worker_new and worker_attach_event.  forkFail: fork() returns -1.
worker_spawn(s, k, forkFail) ==
    IF forkFail \/ FreePids(s.child) = {}
    THEN [s EXCEPT !.list = [@ EXCEPT ![k].state = EVENT_QUEUED],
                   !.failed = @ + 1]
    ELSE LET pid == CHOOSE p \in FreePids(s.child) :
                        \A q \in FreePids(s.child) : p <= q
             born == [s EXCEPT
                        !.child = [p \in DOMAIN @ \cup {pid} |->
                                     IF p = pid
                                     THEN Child("run", s.list[k].seqnum, <<>>, {}, "none")
                                     ELSE @[p]],
                        !.workers = [p \in DOMAIN @ \cup {pid} |->
                                     IF p = pid
                                     THEN Worker("WORKER_UNDEF", NO_EVENT)
                                     ELSE @[p]]]
         IN  worker_attach_event(born, pid, k)

\* the HASHMAP_FOREACH loop of event_run from worker pid on, then the cap test
\* and worker_spawn.  sendFail: the workers whose unicast send fails.
RECURSIVE event_run_loop(_, _, _, _, _, _)
event_run_loop(s, k, pid, children_max, sendFail, forkFail) ==
    IF pid > MaxChildren
    THEN IF Cardinality(DOMAIN s.workers) >= children_max
         THEN s
         ELSE worker_spawn(s, k, forkFail)
    ELSE IF pid \notin DOMAIN s.workers \/ s.workers[pid].state # WORKER_IDLE
    THEN event_run_loop(s, k, pid + 1, children_max, sendFail, forkFail)
    ELSE IF pid \in sendFail
    THEN \* worker did not accept message, kill it
         event_run_loop(
            [s EXCEPT !.child = kill(@, pid, "SIGKILL"),
                      !.workers = [@ EXCEPT ![pid].state = WORKER_KILLED],
                      !.failed = @ + 1],
            k, pid + 1, children_max, sendFail, forkFail)
    ELSE worker_attach_event(
            [s EXCEPT !.child = [@ EXCEPT ![pid].rx = Append(@, s.list[k].seqnum)]],
            pid, k)

\* event_run forking without looking for an Idle worker
event_run_ignoring_idle(s, k, children_max, sendFail, forkFail) ==
    IF Cardinality(DOMAIN s.workers) >= children_max
    THEN s
    ELSE worker_spawn(s, k, forkFail)

\* event_run returning after the first failing send
event_run_stop_at_failure(s, k, children_max, sendFail, forkFail) ==
    LET idle == {p \in DOMAIN s.workers : s.workers[p].state = WORKER_IDLE} IN
    IF idle # {} /\ (CHOOSE p \in idle : \A q \in idle : p <= q) \in sendFail
    THEN LET p == CHOOSE p \in idle : \A q \in idle : p <= q IN
         [s EXCEPT !.child = kill(@, p, "SIGKILL"),
                   !.workers = [@ EXCEPT ![p].state = WORKER_KILLED],
                   !.failed = @ + 1]
    ELSE event_run_loop(s, k, 1, children_max, sendFail, forkFail)

\* event_run spawning whatever children_max says
event_run_no_cap(s, k, children_max, sendFail, forkFail) ==
    event_run_loop(s, k, 1, MaxChildren + 1, sendFail, forkFail)

\* event_run never spawning
event_run_no_spawn(s, k, children_max, sendFail, forkFail) ==
    event_run_loop(s, k, 1, 0, sendFail, forkFail)

event_run(s, k, children_max, sendFail, forkFail) ==
    event_run_loop(s, k, 1, children_max, sendFail, forkFail)

\* event_queue_start: the udev_list_node_foreach loop from list position k on.
\* forkFails: the seqnums of the events for which fork() fails.
RECURSIVE event_queue_start(_, _, _, _, _)
event_queue_start(s, k, children_max, sendFail, forkFails) ==
    IF k > Len(s.list)
    THEN s
    ELSE IF s.list[k].state # EVENT_QUEUED
    THEN event_queue_start(s, k + 1, children_max, sendFail, forkFails)
    ELSE LET busy == is_devpath_busy(s.list, s.list[k])
             t == [s EXCEPT !.list = [@ EXCEPT ![k].delaying_seqnum =
                                                    busy.delaying_seqnum]]
         IN  IF busy.ret
             THEN event_queue_start(t, k + 1, children_max, sendFail, forkFails)
             ELSE event_queue_start(
                    event_run(t, k, children_max, sendFail,
                              t.list[k].seqnum \in forkFails),
                    k + 1, children_max, sendFail, forkFails)

\* event_queue_cleanup(match_type): free the events of that state (all of
\* them for EVENT_UNDEF).  Gives <<list, workers>>.
RECURSIVE event_queue_cleanup(_, _, _, _)
event_queue_cleanup(list, W, match_type, k) ==
    IF k > Len(list)
    THEN <<list, W>>
    ELSE IF match_type # EVENT_UNDEF /\ match_type # list[k].state
    THEN event_queue_cleanup(list, W, match_type, k + 1)
    ELSE LET r == event_free(list, W, list[k].seqnum) IN
         event_queue_cleanup(r[1], r[2], match_type, k)

\* event_queue_update always touching the file
event_queue_update_touch(list) == TRUE

\* event_queue_update touching the file for an empty list
event_queue_update_inverted(list) == list = <<>>

\* event_queue_update: touch or unlink /run/udev/queue; gives whether the
\* file exists afterwards
event_queue_update(list) == list # <<>>

(***************************************************************************)
(* Control messages.                                                       *)
(***************************************************************************)
CtrlMsg(type, arg) == [type |-> type, arg |-> arg]

\* the strings SET_ENV carries: "k=v", "k=" and "k"
EnvStrings == {<<"k", "=", "v">>, <<"k", "=">>, <<"k">>}

CtrlMsgs ==
    {CtrlMsg("SET_LOG_LEVEL", <<>>), CtrlMsg("STOP_EXEC_QUEUE", <<>>),
     CtrlMsg("START_EXEC_QUEUE", <<>>), CtrlMsg("RELOAD", <<>>),
     CtrlMsg("PING", <<>>), CtrlMsg("EXIT", <<>>)}
    \cup {CtrlMsg("SET_ENV", s) : s \in EnvStrings}
    \cup {CtrlMsg("SET_MAX_CHILDREN", <<n>>) : n \in 0..MaxChildren}

\* strchr(str, '='): the 1-based position of the first '=', 0 if there is none
strchr_eq(str) ==
    IF \E i \in 1..Len(str) : str[i] = "="
    THEN CHOOSE i \in 1..Len(str) :
            str[i] = "=" /\ \A j \in 1..(i - 1) : str[j] # "="
    ELSE 0

\* udev_list_entry_add(&properties_list, key, val) on a unique list
udev_list_entry_add(list, key, val) ==
    [k \in DOMAIN list \cup {key} |-> IF k = key THEN val ELSE list[k]]

\* the SET_ENV branch of on_ctrl_msg, without its worker_kill()
set_env(list, str) ==
    LET eq == strchr_eq(str) IN
    IF eq = 0
    THEN list
    ELSE udev_list_entry_add(list, SubSeq(str, 1, eq - 1),
                             SubSeq(str, eq + 1, Len(str)))

(***************************************************************************)
(* The reactor loop of main().  pc names the next block of the loop body;  *)
(* blocks guarded by a readiness flag that is not set are passed over.     *)
(***************************************************************************)
is_worker == "worker" \in ev
is_netlink == "netlink" \in ev
is_signal == "signal" \in ev
is_inotify == "inotify" \in ev
is_ctrl == "ctrl" \in ev

AfterNetlink == "start"
AfterWorker == IF is_netlink THEN "netlink" ELSE AfterNetlink
AfterReload == IF is_worker THEN "worker" ELSE AfterWorker
AfterUpdate == IF is_ctrl THEN "ctrl" ELSE "top"
AfterInotify == "update"
\* the step after the signals without the "if (udev_exit) continue"
AfterSignal_no_continue(exit) == IF is_inotify THEN "inotify" ELSE AfterInotify

AfterSignal(exit) ==
    IF exit THEN "top" ELSE IF is_inotify THEN "inotify" ELSE AfterInotify
AfterStart == IF is_signal THEN "signal" ELSE AfterSignal(udev_exit)

\* the exit: label of main(): what is left of the event list and the worker
\* map after workers_free and event_queue_cleanup(EVENT_UNDEF).
\* Gives <<list, workers>>.
main_exit(list, W) ==
    LET w == workers_free(list, W, 1) IN
    event_queue_cleanup(w[1], w[2], EVENT_UNDEF, 1)

\* the sources with input pending, as epoll_wait sees them
Ready ==
    {x \in {"worker"} : worker_watch # <<>>}
    \cup {x \in {"netlink"} : monitor /\ nl_recv < Len(kernel_sent)}
    \cup {x \in {"signal"} : sigpending # {}}
    \cup {x \in {"inotify"} : monitor /\ inotify_queue # <<>>}
    \cup {x \in {"ctrl"} : monitor /\ ctrl_queue # <<>>}

\* the timeout of epoll_wait without the 30 s limit at exit
timeout_no_limit_at_exit ==
    IF udev_exit \/ (event_list = <<>> /\ DOMAIN workers = {}) THEN -1 ELSE 3

\* the timeout of epoll_wait, waiting without limit whenever the event list
\* is empty
timeout_idle_with_workers ==
    IF udev_exit THEN 30
    ELSE IF event_list = <<>> THEN -1
    ELSE 3

\* the timeout main() hands to epoll_wait, in seconds
timeout ==
    IF udev_exit THEN 30
    ELSE IF event_list = <<>> /\ DOMAIN workers = {} THEN -1
    ELSE 3

\* loop top: shutdown handling, timeout choice, event_queue_update
LoopTop ==
    /\ pc = "top"
    /\ IF udev_exit
       THEN LET r == event_queue_cleanup(event_list, workers, EVENT_QUEUED, 1)
                w == worker_kill(r[2], child)
            IN  /\ monitor' = FALSE
                /\ child' = w[2]
                /\ IF r[1] = <<>> /\ DOMAIN w[1] = {}
                   THEN LET x == main_exit(r[1], w[1]) IN
                        /\ event_list' = x[1]
                        /\ workers' = x[2]
                        /\ queue_file' = FALSE
                        /\ pc' = "stopped"
                   ELSE /\ event_list' = r[1]
                        /\ workers' = w[1]
                        /\ queue_file' = event_queue_update(r[1])
                        /\ pc' = "wait"
       ELSE /\ pc' = "wait"
            /\ queue_file' = event_queue_update(event_list)
            /\ UNCHANGED <<monitor, event_list, workers, child>>
    /\ UNCHANGED <<arg_children_max, stop_exec_queue, reload, udev_exit, rules,
                   properties_list, ev, kernel_sent, nl_recv, worker_watch,
                   sigpending, ctrl_queue, inotify_queue, inputs, histVars,
                   wproc>>

\* epoll_wait returns: with the ready sources, or with none after the timeout
EpollWait ==
    /\ pc = "wait"
    /\ \/ Ready # {} /\ ev' = Ready /\ pc' = "reload"
       \/ Ready = {} /\ timeout # -1 /\ ev' = {} /\ pc' = "timeout"
    /\ UNCHANGED <<event_list, workers, arg_children_max, stop_exec_queue,
                   reload, udev_exit, rules, monitor, queue_file,
                   properties_list, envVars, histVars, wproc>>

\* the hanging-event check setting warned in the kill branch as well
RECURSIVE hanging_loop_warn_at_kill(_, _, _, _)
hanging_loop_warn_at_kill(list, W, ch, pid) ==
    IF pid > MaxChildren
    THEN <<list, W, ch>>
    ELSE IF pid \notin DOMAIN W \/ W[pid].state # WORKER_RUNNING
    THEN hanging_loop_warn_at_kill(list, W, ch, pid + 1)
    ELSE LET k == IndexOf(list, W[pid].event) IN
         IF list[k].age = "fatal"
         THEN hanging_loop_warn_at_kill([list EXCEPT ![k].warned = TRUE],
                                        [W EXCEPT ![pid].state = WORKER_KILLED],
                                        kill(ch, pid, "SIGKILL"), pid + 1)
         ELSE IF list[k].age = "warn" /\ ~list[k].warned
         THEN hanging_loop_warn_at_kill([list EXCEPT ![k].warned = TRUE], W, ch,
                                        pid + 1)
         ELSE hanging_loop_warn_at_kill(list, W, ch, pid + 1)

\* the hanging-event check of the timeout branch from worker pid on; the age
\* of an event says how ts - event->start_usec compares with the two
\* timeouts: "young", "warn" (above the warn timeout) or "fatal" (above both).
\* Gives <<list, workers, child>>.
RECURSIVE hanging_loop(_, _, _, _)
hanging_loop(list, W, ch, pid) ==
    IF pid > MaxChildren
    THEN <<list, W, ch>>
    ELSE IF pid \notin DOMAIN W \/ W[pid].state # WORKER_RUNNING
    THEN hanging_loop(list, W, ch, pid + 1)
    ELSE LET k == IndexOf(list, W[pid].event) IN
         IF list[k].age = "fatal"
         THEN hanging_loop(list, [W EXCEPT ![pid].state = WORKER_KILLED],
                           kill(ch, pid, "SIGKILL"), pid + 1)
         ELSE IF list[k].age = "warn" /\ ~list[k].warned
         THEN hanging_loop([list EXCEPT ![k].warned = TRUE], W, ch, pid + 1)
         ELSE hanging_loop(list, W, ch, pid + 1)

\* fdcount == 0: give up at exit, else kill idle workers and check for
\* hanging events
Timeout ==
    /\ pc = "timeout"
    /\ IF udev_exit
       THEN LET x == main_exit(event_list, workers) IN
            /\ event_list' = x[1]
            /\ workers' = x[2]
            /\ queue_file' = FALSE
            /\ pc' = "stopped"
            /\ UNCHANGED child
       ELSE LET w == IF event_list = <<>>
                     THEN worker_kill(workers, child)
                     ELSE <<workers, child>>
                r == hanging_loop(event_list, w[1], w[2], 1)
            IN  /\ event_list' = r[1]
                /\ workers' = r[2]
                /\ child' = r[3]
                /\ pc' = "reload"
                /\ UNCHANGED queue_file
    /\ UNCHANGED <<arg_children_max, stop_exec_queue, reload, udev_exit, rules,
                   monitor, properties_list, ev, kernel_sent,
                   nl_recv, worker_watch, sigpending, ctrl_queue,
                   inotify_queue, inputs, histVars, wproc>>

\* the timestamp check (changed: the rule files or builtins changed on disk)
\* and the processing of a pending reload
CheckReload ==
    /\ pc = "reload"
    /\ \E changed \in BOOLEAN :
        /\ changed => rules /\ inputs < MaxInputs
        /\ inputs' = IF changed THEN inputs + 1 ELSE inputs
        /\ IF reload \/ changed
           THEN LET w == worker_kill(workers, child) IN
                /\ workers' = w[1]
                /\ child' = w[2]
                /\ rules' = FALSE
                /\ reload' = FALSE
           ELSE UNCHANGED <<workers, child, rules, reload>>
    /\ pc' = AfterReload
    /\ UNCHANGED <<event_list, arg_children_max, stop_exec_queue, udev_exit,
                   monitor, queue_file, properties_list, ev, kernel_sent,
                   nl_recv, worker_watch, sigpending, ctrl_queue,
                   inotify_queue, histVars, wproc>>

\* a datagram on the worker result socket: whether its size is that of
\* struct worker_message, and the pid of its SCM_CREDENTIALS (0: none)
Datagram(size_ok, pid) == [size_ok |-> size_ok, pid |-> pid]

\* the datagrams that are no completion message: one of the wrong size, one
\* without credentials
Malformed == {Datagram(FALSE, 1), Datagram(TRUE, 0)}

\* on_worker not looking at the size of the datagram
ignored_no_size_test(W, msg) == msg.pid <= 0 \/ msg.pid \notin DOMAIN W

\* the datagrams on_worker passes over: of the wrong size, without valid
\* credentials, or of a pid that is not in the worker map
ignored(W, msg) == ~msg.size_ok \/ msg.pid <= 0 \/ msg.pid \notin DOMAIN W

\* on_worker putting the event of a Killed worker back into the queue
RECURSIVE on_worker_requeue(_, _, _)
on_worker_requeue(list, W, msgs) ==
    IF msgs = <<>>
    THEN <<list, W>>
    ELSE LET pid == Head(msgs).pid IN
         IF ignored(W, Head(msgs))
         THEN on_worker_requeue(list, W, Tail(msgs))
         ELSE IF W[pid].state = WORKER_KILLED /\ W[pid].event # NO_EVENT
         THEN LET k == IndexOf(list, W[pid].event) IN
              on_worker_requeue([list EXCEPT ![k].state = EVENT_QUEUED,
                                             ![k].worker = NO_WORKER],
                                [W EXCEPT ![pid].event = NO_EVENT], Tail(msgs))
         ELSE LET V == [W EXCEPT ![pid].state = WORKER_IDLE]
                  r == event_free(list, V, V[pid].event)
              IN  on_worker_requeue(r[1], r[2], Tail(msgs))

\* on_worker reading one datagram and leaving the loop
on_worker_first_only(list, W, msgs) ==
    IF msgs = <<>> \/ ignored(W, Head(msgs))
    THEN <<list, W>>
    ELSE LET pid == Head(msgs).pid
             V == IF W[pid].state # WORKER_KILLED
                  THEN [W EXCEPT ![pid].state = WORKER_IDLE]
                  ELSE W
         IN  event_free(list, V, V[pid].event)

\* the for (;;) loop of on_worker over the pending datagrams msgs.
\* Gives <<list, workers>>.
RECURSIVE on_worker(_, _, _)
on_worker(list, W, msgs) ==
    IF msgs = <<>>
    THEN <<list, W>>
    ELSE LET pid == Head(msgs).pid IN
         IF ignored(W, Head(msgs))
         THEN on_worker(list, W, Tail(msgs))
         ELSE LET V == IF W[pid].state # WORKER_KILLED
                       THEN [W EXCEPT ![pid].state = WORKER_IDLE]
                       ELSE W
                  r == event_free(list, V, V[pid].event)
              IN  on_worker(r[1], r[2], Tail(msgs))

OnWorker ==
    /\ pc = "worker"
    /\ LET r == on_worker(event_list, workers, worker_watch) IN
        /\ event_list' = r[1]
        /\ workers' = r[2]
    /\ worker_watch' = <<>>
    /\ pc' = AfterWorker
    /\ UNCHANGED <<arg_children_max, stop_exec_queue, reload, udev_exit, rules,
                   monitor, queue_file, properties_list, ev, kernel_sent,
                   nl_recv, child, sigpending, ctrl_queue, inotify_queue,
                   inputs, histVars, wproc>>

\* on_uevent: receive one device from the netlink socket, if one is pending,
\* and insert it.  Gives <<list, nl_recv>>.
on_uevent(list, sent, recv) ==
    IF recv < Len(sent)
    THEN <<event_queue_insert(list, sent[recv + 1], recv + 1), recv + 1>>
    ELSE <<list, recv>>

OnUevent ==
    /\ pc = "netlink"
    /\ LET r == on_uevent(event_list, kernel_sent, nl_recv) IN
        /\ event_list' = r[1]
        /\ nl_recv' = r[2]
    /\ pc' = AfterNetlink
    /\ UNCHANGED <<workers, arg_children_max, stop_exec_queue, reload,
                   udev_exit, rules, monitor, queue_file, properties_list, ev,
                   kernel_sent, worker_watch, child, sigpending, ctrl_queue,
                   inotify_queue, inputs, histVars, wproc>>

IdleWorkers == {p \in DOMAIN workers : workers[p].state = WORKER_IDLE}

QueuedSeqnums ==
    {event_list[k].seqnum :
        k \in {j \in 1..Len(event_list) : event_list[j].state = EVENT_QUEUED}}

\* the test before "start new events", without the stop_exec_queue flag
may_start_ignoring_stop(list, exit, stop) == list # <<>> /\ ~exit

\* the test before "start new events": !udev_list_node_is_empty(&event_list)
\* && !udev_exit && !stop_exec_queue
may_start(list, exit, stop) == list # <<>> /\ ~exit /\ ~stop

\* event_queue_start without the test of the rules
have_rules_unchecked(r) == TRUE

\* the test before event_queue_start: rules != NULL
have_rules(r) == r

\* "start new events": load the rules if they are gone (loaded: whether
\* udev_rules_new succeeds), then event_queue_start (sendFail: the workers a
\* unicast send to which fails, forkFails: the events for which fork fails)
StartEvents ==
    /\ pc = "start"
    /\ IF may_start(event_list, udev_exit, stop_exec_queue)
       THEN \E loaded \in BOOLEAN :
            /\ rules => loaded
            /\ ~loaded => inputs < MaxInputs
            /\ rules' = loaded
            /\ IF have_rules(loaded)
               THEN \E sendFail \in SUBSET IdleWorkers,
                       forkFails \in SUBSET QueuedSeqnums :
                    LET s == event_queue_start(
                                [list |-> event_list, workers |-> workers,
                                 child |-> child, started |-> started,
                                 failed |-> 0, aborted |-> FALSE],
                                1, arg_children_max, sendFail, forkFails)
                    IN  /\ Cardinality(sendFail) + Cardinality(forkFails) = s.failed
                        /\ inputs + s.failed <= MaxInputs
                        /\ event_list' = s.list
                        /\ workers' = s.workers
                        /\ child' = s.child
                        /\ started' = s.started
                        /\ inputs' = inputs + s.failed
                        /\ pass' = IF s.aborted THEN "aborted"
                                   ELSE IF s.failed > 0 THEN "failed"
                                   ELSE "clean"
               ELSE /\ pass' = "none"
                    /\ inputs' = inputs + 1
                    /\ UNCHANGED <<event_list, workers, child, started>>
       ELSE /\ pass' = "none"
            /\ UNCHANGED <<event_list, workers, child, started, rules, inputs>>
    /\ pc' = IF pass' = "aborted" THEN "stopped" ELSE AfterStart
    /\ UNCHANGED <<arg_children_max, stop_exec_queue, reload, udev_exit,
                   monitor, queue_file, properties_list, ev, kernel_sent,
                   nl_recv, worker_watch, sigpending, ctrl_queue,
                   inotify_queue, reaped, published, wproc>>

\* the orders in which waitpid(-1, ...) may return the exited children
Perms(S) ==
    {f \in [1..Cardinality(S) -> S] :
        \A i, j \in 1..Cardinality(S) : i # j => f[i] # f[j]}

Zombies(ch) == {p \in DOMAIN ch : ch[p].st = "zombie"}

\* on_sigchld forwarding the kernel event whatever the exit status
failed_while_handling_any(status, event) == event # NO_EVENT

\* the test of on_sigchld that has it delete the device state and forward
\* the kernel event: !WIFEXITED(status) || WEXITSTATUS(status) != 0, and
\* worker->event
failed_while_handling(status, event) ==
    status # "exited 0" /\ event # NO_EVENT

\* the for (;;) loop of on_sigchld; order: the pids waitpid returns, in turn.
\* Gives <<list, workers, child>>.
RECURSIVE on_sigchld(_, _, _, _, _)
on_sigchld(list, W, ch, order, log) ==
    IF order = <<>>
    THEN <<list, W, ch, log>>
    ELSE LET pid == Head(order)
             left == [p \in DOMAIN ch \ {pid} |-> ch[p]]
         IN  IF pid \notin DOMAIN W
             THEN <<list, W, left, log>>
             ELSE LET r == worker_free(list, W, pid)
                      \* forward kernel event without amending it
                      forward == failed_while_handling(ch[pid].status, W[pid].event)
                      entry == [seqnum |-> W[pid].event,
                                status |-> ch[pid].status,
                                state |-> W[pid].state,
                                forwarded |-> forward]
                  IN  on_sigchld(r[1], r[2], left, Tail(order),
                                 IF W[pid].event # NO_EVENT
                                 THEN Append(log, entry)
                                 ELSE log)

\* is_signal: read one siginfo from the signalfd and dispatch on it
OnSignal ==
    /\ pc = "signal"
    /\ \E signo \in sigpending :
        /\ sigpending' = sigpending \ {signo}
        /\ udev_exit' = (udev_exit \/ signo = "SIGTERM")
        /\ reload' = (reload \/ signo = "SIGHUP")
        /\ IF signo = "SIGCHLD"
           THEN \E order \in Perms(Zombies(child)) :
                LET r == on_sigchld(event_list, workers, child, order, reaped) IN
                /\ event_list' = r[1]
                /\ workers' = r[2]
                /\ child' = r[3]
                /\ reaped' = r[4]
           ELSE UNCHANGED <<event_list, workers, child, reaped>>
        /\ pc' = AfterSignal(udev_exit')
    /\ UNCHANGED <<arg_children_max, stop_exec_queue, rules, monitor,
                   queue_file, properties_list, ev, kernel_sent, nl_recv,
                   worker_watch, ctrl_queue, inotify_queue, inputs, started,
                   pass, published, wproc>>

\* the FOREACH_INOTIFY_EVENT loop of on_inotify over IN_CLOSE_WRITE events:
\* synthesize_change (the kernel emits the uevents of the entry), then one
\* on_uevent.  Gives <<list, kernel_sent, nl_recv>>.
RECURSIVE on_inotify(_, _, _, _)
on_inotify(list, sent, recv, events) ==
    IF events = <<>>
    THEN <<list, sent, recv>>
    ELSE LET emitted == sent \o Head(events)
             r == on_uevent(list, emitted, recv)
         IN  on_inotify(r[1], emitted, r[2], Tail(events))

OnInotify ==
    /\ pc = "inotify"
    /\ LET r == on_inotify(event_list, kernel_sent, nl_recv, inotify_queue) IN
        /\ event_list' = r[1]
        /\ kernel_sent' = r[2]
        /\ nl_recv' = r[3]
    /\ inotify_queue' = <<>>
    /\ pc' = AfterInotify
    /\ UNCHANGED <<workers, arg_children_max, stop_exec_queue, reload,
                   udev_exit, rules, monitor, queue_file, properties_list, ev,
                   worker_watch, child, sigpending, ctrl_queue, inputs,
                   histVars, wproc>>

\* the event_queue_update() before the control message handling
QueueUpdate ==
    /\ pc = "update"
    /\ queue_file' = event_queue_update(event_list)
    /\ pc' = AfterUpdate
    /\ UNCHANGED <<event_list, workers, arg_children_max, stop_exec_queue,
                   reload, udev_exit, rules, monitor, properties_list, ev,
                   envVars, histVars, wproc>>

\* on_ctrl_msg culling the workers when the cap is set as well
ctrl_kills_on_cap(msg) ==
    msg.type \in {"SET_LOG_LEVEL", "SET_ENV", "SET_MAX_CHILDREN"}

\* the messages for which on_ctrl_msg calls worker_kill(): SET_LOG_LEVEL, and
\* SET_ENV whatever its string
ctrl_kills(msg) == msg.type \in {"SET_LOG_LEVEL", "SET_ENV"}

\* on_ctrl_msg: accept one connection and handle its message
OnCtrlMsg ==
    /\ pc = "ctrl"
    /\ LET msg == Head(ctrl_queue)
           kills == ctrl_kills(msg)
           w == IF kills THEN worker_kill(workers, child) ELSE <<workers, child>>
       IN  /\ workers' = w[1]
           /\ child' = w[2]
           /\ stop_exec_queue' =
                IF msg.type = "STOP_EXEC_QUEUE" THEN TRUE
                ELSE IF msg.type = "START_EXEC_QUEUE" THEN FALSE
                ELSE stop_exec_queue
           /\ reload' = (reload \/ msg.type = "RELOAD")
           /\ properties_list' =
                IF msg.type = "SET_ENV"
                THEN set_env(properties_list, msg.arg)
                ELSE properties_list
           /\ arg_children_max' =
                IF msg.type = "SET_MAX_CHILDREN" THEN msg.arg[1]
                ELSE arg_children_max
           /\ udev_exit' = (udev_exit \/ msg.type = "EXIT")
    /\ ctrl_queue' = Tail(ctrl_queue)
    /\ pc' = "top"
    /\ UNCHANGED <<event_list, rules, monitor, queue_file, ev, kernel_sent,
                   nl_recv, worker_watch, sigpending, inotify_queue, inputs,
                   histVars, wproc>>

(***************************************************************************)
(* The environment.                                                        *)
(***************************************************************************)
Running == pc # "stopped"

RECURSIVE SumLen(_)
SumLen(q) == IF q = <<>> THEN 0 ELSE Len(Head(q)) + SumLen(Tail(q))

\* uevents emitted so far or promised by pending inotify events
Emitted == Len(kernel_sent) + SumLen(inotify_queue)

\* the kernel emits a uevent; its seqnum is the next one
KernelUevent ==
    /\ Running
    /\ Emitted < MaxSeq
    /\ inputs < MaxInputs
    /\ \E dev \in Devices : kernel_sent' = Append(kernel_sent, dev)
    /\ inputs' = inputs + 1
    /\ UNCHANGED <<brokerVars, nl_recv, worker_watch, child, sigpending,
                   ctrl_queue, inotify_queue, histVars, wproc>>

\* a watched device node is closed after writing
InotifyCloseWrite ==
    /\ Running
    /\ inputs < MaxInputs
    /\ \E synth \in Synthesized :
        /\ Emitted + Len(synth) <= MaxSeq
        /\ inotify_queue' = Append(inotify_queue, synth)
    /\ inputs' = inputs + 1
    /\ UNCHANGED <<brokerVars, kernel_sent, nl_recv, worker_watch, child,
                   sigpending, ctrl_queue, histVars, wproc>>

\* an administrator sends a control message
AdminCtrl ==
    /\ Running
    /\ inputs < MaxInputs
    /\ \E msg \in CtrlMsgs : ctrl_queue' = Append(ctrl_queue, msg)
    /\ inputs' = inputs + 1
    /\ UNCHANGED <<brokerVars, kernel_sent, nl_recv, worker_watch, child,
                   sigpending, inotify_queue, histVars, wproc>>

\* SIGTERM/SIGINT or SIGHUP is sent to the daemon
AdminSignal ==
    /\ Running
    /\ inputs < MaxInputs
    /\ \E signo \in {"SIGTERM", "SIGHUP"} : sigpending' = sigpending \cup {signo}
    /\ inputs' = inputs + 1
    /\ UNCHANGED <<brokerVars, kernel_sent, nl_recv, worker_watch, child,
                   ctrl_queue, inotify_queue, histVars, wproc>>

\* a process that holds the write end of the worker result socket writes a
\* datagram that is no completion message
StrayDatagram ==
    /\ Running
    /\ inputs < MaxInputs
    /\ \E msg \in Malformed : worker_watch' = Append(worker_watch, msg)
    /\ inputs' = inputs + 1
    /\ UNCHANGED <<brokerVars, kernel_sent, nl_recv, child, sigpending,
                   ctrl_queue, inotify_queue, histVars, wproc>>

\* worker subprocess pid: rules applied, device published, completion
\* datagram sent; it goes on to wait for the next device
ChildFinish(pid) ==
    /\ Running
    /\ pid \in DOMAIN child
    /\ child[pid].st = "run"
    /\ published' = published \cup {child[pid].dev}
    /\ worker_watch' = Append(worker_watch, Datagram(TRUE, pid))
    /\ child' = [child EXCEPT ![pid].st = "wait", ![pid].dev = NO_EVENT]
    /\ UNCHANGED <<brokerVars, kernel_sent, nl_recv, sigpending, ctrl_queue,
                   inotify_queue, inputs, started, pass, reaped, wproc>>

\* worker subprocess pid: epoll_wait returns with a device on the unicast socket
ChildReceive(pid) ==
    /\ Running
    /\ pid \in DOMAIN child
    /\ child[pid].st = "wait"
    /\ child[pid].rx # <<>>
    /\ child' = [child EXCEPT ![pid].st = "run", ![pid].dev = Head(child[pid].rx),
                              ![pid].rx = Tail(child[pid].rx)]
    /\ UNCHANGED <<brokerVars, kernel_sent, nl_recv, worker_watch, sigpending,
                   ctrl_queue, inotify_queue, inputs, histVars, wproc>>

\* worker subprocess pid: epoll_wait returns with SIGTERM; it exits
ChildTerm(pid) ==
    /\ Running
    /\ pid \in DOMAIN child
    /\ child[pid].st = "wait"
    /\ "SIGTERM" \in child[pid].sig
    /\ child' = [child EXCEPT ![pid] = Child("zombie", NO_EVENT, <<>>, {}, "exited 0")]
    /\ sigpending' = sigpending \cup {"SIGCHLD"}
    /\ UNCHANGED <<brokerVars, kernel_sent, nl_recv, worker_watch, ctrl_queue,
                   inotify_queue, inputs, histVars, wproc>>

\* worker subprocess pid dies of the SIGKILL sent to it
ChildKilled(pid) ==
    /\ Running
    /\ pid \in DOMAIN child
    /\ child[pid].st # "zombie"
    /\ "SIGKILL" \in child[pid].sig
    /\ child' = [child EXCEPT ![pid] = Child("zombie", NO_EVENT, <<>>, {}, "signaled")]
    /\ sigpending' = sigpending \cup {"SIGCHLD"}
    /\ UNCHANGED <<brokerVars, kernel_sent, nl_recv, worker_watch, ctrl_queue,
                   inotify_queue, inputs, histVars, wproc>>

\* worker subprocess pid crashes or exits with a failure status
ChildCrash(pid) ==
    /\ Running
    /\ inputs < MaxInputs
    /\ pid \in DOMAIN child
    /\ child[pid].st # "zombie"
    /\ child' = [child EXCEPT ![pid] = Child("zombie", NO_EVENT, <<>>, {}, "exited 1")]
    /\ sigpending' = sigpending \cup {"SIGCHLD"}
    /\ inputs' = inputs + 1
    /\ UNCHANGED <<brokerVars, kernel_sent, nl_recv, worker_watch, ctrl_queue,
                   inotify_queue, histVars, wproc>>

\* event a got its start_usec no later than event b
DispatchedBefore(a, b) ==
    \E i, j \in 1..Len(started) : i <= j /\ started[i] = a /\ started[j] = b

AgeRank(age) == IF age = "young" THEN 0 ELSE IF age = "warn" THEN 1 ELSE 2

\* the monotonic clock passes a timeout of the Running event at list position
\* k, and with it of every Running event dispatched before that one
ClockAdvance ==
    /\ Running
    /\ inputs < MaxInputs
    /\ \E k \in 1..Len(event_list), age \in {"warn", "fatal"} :
        /\ event_list[k].state = EVENT_RUNNING
        /\ AgeRank(event_list[k].age) < AgeRank(age)
        /\ event_list' =
             [j \in 1..Len(event_list) |->
                IF /\ event_list[j].state = EVENT_RUNNING
                   /\ DispatchedBefore(event_list[j].seqnum, event_list[k].seqnum)
                   /\ AgeRank(event_list[j].age) < AgeRank(age)
                THEN [event_list[j] EXCEPT !.age = age]
                ELSE event_list[j]]
    /\ inputs' = inputs + 1
    /\ UNCHANGED <<workers, arg_children_max, stop_exec_queue, reload,
                   udev_exit, rules, monitor, queue_file, properties_list, pc,
                   ev, kernel_sent, nl_recv, worker_watch, child, sigpending,
                   ctrl_queue, inotify_queue, histVars, wproc>>

(***************************************************************************)
(* The worker subprocess: the child branch of worker_spawn, one statement  *)
(* group per step.  wproc.at is the position of the child:                 *)
(*   "setup"           signalfd, epoll_create1, epoll_ctl                  *)
(*   "udev_event_new"  top of the for (;;) loop                            *)
(*   "lock"            the shared lock on the device node                  *)
(*   "rules"           udev_event_execute_rules, udev_event_execute_run    *)
(*   "send_device"     udev_monitor_send_device(worker_monitor, NULL, dev) *)
(*   "skip"            the label skip: send() of the worker_message        *)
(*   "wait"            the while (dev == NULL) epoll_wait loop             *)
(*   "out"             the label out: cleanup and _exit                    *)
(***************************************************************************)
MaxTaken == 3          \* devices one worker subprocess takes at most
WorkerPid == 1         \* the pid of the worker subprocess followed

WorkerDevice(action, subsystem, sysname) ==
    [action |-> action, subsystem |-> subsystem, sysname |-> sysname]

WorkerDevices ==
    { WorkerDevice("add", "block", <<"s", "d", "a">>),
      WorkerDevice("remove", "block", <<"s", "d", "a">>),
      WorkerDevice("change", "block", <<"d", "m", "-", "0">>),
      WorkerDevice("change", "block", <<"m", "d", "0">>),
      WorkerDevice("add", "net", <<"e", "t", "h", "0">>) }

startswith(s, prefix) ==
    Len(s) >= Len(prefix) /\ SubSeq(s, 1, Len(prefix)) = prefix

\* the devices whose node the worker locks before it runs the rules
takes_lock(dev) ==
    /\ dev.action # "remove"
    /\ dev.subsystem = "block"
    /\ ~startswith(dev.sysname, <<"d", "m", "-">>)
    /\ ~startswith(dev.sysname, <<"m", "d">>)

\* r as _exit tests it
negative(r) == r \in {"-errno", "-ENOMEM", "-EAGAIN", "-send"}

NotForked ==
    [at |-> "none", dev |-> NULL, taken |-> 0, r |-> "0", sigterm |-> FALSE,
     term |-> FALSE, unicast |-> <<>>, skipped |-> {}, sink |-> <<>>,
     sent |-> <<>>, status |-> "none"]

\* case 0 of the fork: the child takes the initial device from the queue
Forked(dev) == [NotForked EXCEPT !.at = "setup", !.dev = dev, !.taken = 1]

\* udev_event_new: NULL leaves the loop for the label out
after_udev_event_new(ok) == IF ok THEN "lock" ELSE "out"

\* a failed flock jumping past the send of the result
after_flock_no_result(busy) == IF busy THEN "wait" ELSE "rules"

\* a failed flock skipping the rules only
after_flock_send_device(busy) == IF busy THEN "send_device" ELSE "rules"

\* flock(LOCK_SH|LOCK_NB) < 0 jumps to the label skip
after_flock(busy) == IF busy THEN "skip" ELSE "rules"

\* everything the worker subprocess leaves alone
parentVars ==
    <<brokerVars, kernel_sent, nl_recv, child, sigpending, ctrl_queue,
      inotify_queue, inputs, histVars>>

\* signalfd, epoll_create1 and the two epoll_ctl
WorkerSetup ==
    /\ wproc.at = "setup"
    /\ \E ok \in BOOLEAN :
        wproc' = IF ok
                 THEN [wproc EXCEPT !.at = "udev_event_new"]
                 ELSE [wproc EXCEPT !.at = "out", !.r = "-errno"]
    /\ UNCHANGED <<parentVars, worker_watch>>

WorkerEventNew ==
    /\ wproc.at = "udev_event_new"
    /\ \E ok \in BOOLEAN :
        wproc' = [wproc EXCEPT !.at = after_udev_event_new(ok),
                               !.sigterm = FALSE,
                               !.r = IF ok THEN @ ELSE "-ENOMEM"]
    /\ UNCHANGED <<parentVars, worker_watch>>

\* the lock: not tried, taken, or held exclusively by another process
WorkerLock ==
    /\ wproc.at = "lock"
    /\ \E busy \in (IF takes_lock(wproc.dev) THEN BOOLEAN ELSE {FALSE}) :
        wproc' = [wproc EXCEPT !.at = after_flock(busy),
                               !.r = IF busy THEN "-EAGAIN" ELSE @,
                               !.skipped = IF busy THEN @ \cup {wproc.taken}
                                           ELSE @]
    /\ UNCHANGED <<parentVars, worker_watch>>

\* the rules and the RUN programs; a SIGTERM that arrives while a program
\* runs is read from fd_signal and noted in udev_event->sigterm
WorkerRules ==
    /\ wproc.at = "rules"
    /\ \E noted \in (IF wproc.term THEN BOOLEAN ELSE {FALSE}) :
        wproc' = [wproc EXCEPT !.at = "send_device",
                               !.sigterm = noted,
                               !.term = IF noted THEN FALSE ELSE @]
    /\ UNCHANGED <<parentVars, worker_watch>>

\* send processed event back to libudev listeners
WorkerSendDevice ==
    /\ wproc.at = "send_device"
    /\ wproc' = [wproc EXCEPT !.at = "skip", !.sink = Append(@, wproc.taken)]
    /\ UNCHANGED <<parentVars, worker_watch>>

\* skip: send udevd the result, drop the device, leave on a noted SIGTERM
WorkerSend ==
    /\ wproc.at = "skip"
    /\ \E ok \in BOOLEAN :
        /\ wproc' = [wproc EXCEPT !.at = IF wproc.sigterm THEN "out" ELSE "wait",
                                  !.r = IF ok THEN "sent" ELSE "-send",
                                  !.dev = NULL,
                                  !.sent = Append(@, wproc.taken)]
        /\ worker_watch' = IF ok
                           THEN Append(worker_watch, Datagram(TRUE, WorkerPid))
                           ELSE worker_watch
    /\ UNCHANGED parentVars

\* epoll_wait returned with the worker monitor ready first
WorkerReceive ==
    /\ wproc.at = "wait"
    /\ wproc.unicast # <<>>
    /\ wproc' = [wproc EXCEPT !.at = "udev_event_new",
                              !.dev = Head(wproc.unicast),
                              !.unicast = Tail(@),
                              !.taken = @ + 1]
    /\ UNCHANGED <<parentVars, worker_watch>>

\* epoll_wait returned with SIGTERM on fd_signal first
WorkerWaitTerm ==
    /\ wproc.at = "wait"
    /\ wproc.term
    /\ wproc' = [wproc EXCEPT !.at = "out", !.term = FALSE]
    /\ UNCHANGED <<parentVars, worker_watch>>

\* out: _exit(r < 0 ? EXIT_FAILURE : EXIT_SUCCESS)
WorkerExit ==
    /\ wproc.at = "out"
    /\ wproc' = [wproc EXCEPT !.at = "exited",
                              !.status = IF negative(wproc.r) THEN "exited 1"
                                         ELSE "exited 0"]
    /\ UNCHANGED <<parentVars, worker_watch>>

Alive == wproc.at \notin {"none", "exited"}

\* the parent's udev_monitor_send_device in event_run
ParentSendsDevice ==
    /\ Alive
    /\ wproc.taken + Len(wproc.unicast) < MaxTaken
    /\ \E dev \in WorkerDevices :
        wproc' = [wproc EXCEPT !.unicast = Append(@, dev)]
    /\ UNCHANGED <<parentVars, worker_watch>>

\* the parent's kill(pid, SIGTERM) in worker_kill
ParentSendsTerm ==
    /\ Alive
    /\ ~wproc.term
    /\ wproc' = [wproc EXCEPT !.term = TRUE]
    /\ UNCHANGED <<parentVars, worker_watch>>

\* the parent's kill(pid, SIGKILL) at the timeout
ParentSendsKill ==
    /\ Alive
    /\ wproc' = [wproc EXCEPT !.at = "exited", !.status = "signaled"]
    /\ UNCHANGED <<parentVars, worker_watch>>

(***************************************************************************)
(* Spec: the daemon and its environment.                                   *)
(***************************************************************************)
InitMain ==
    /\ event_list = <<>>
    /\ workers = <<>>
    /\ arg_children_max \in 1..MaxChildren
    /\ stop_exec_queue = FALSE
    /\ reload = FALSE
    /\ udev_exit = FALSE
    /\ rules = TRUE
    /\ monitor = TRUE
    /\ queue_file = FALSE
    /\ properties_list = <<>>
    /\ pc = "top"
    /\ ev = {}
    /\ kernel_sent = <<>>
    /\ nl_recv = 0
    /\ worker_watch = <<>>
    /\ child = <<>>
    /\ sigpending = {}
    /\ ctrl_queue = <<>>
    /\ inotify_queue = <<>>
    /\ inputs = 0
    /\ started = <<>>
    /\ pass = "none"
    /\ reaped = <<>>
    /\ published = {}

\* no worker subprocess is followed statement by statement
Init == InitMain /\ wproc = NotForked

Broker ==
    \/ LoopTop
    \/ EpollWait
    \/ Timeout
    \/ CheckReload
    \/ OnWorker
    \/ OnUevent
    \/ StartEvents
    \/ OnSignal
    \/ OnInotify
    \/ QueueUpdate
    \/ OnCtrlMsg

Environment ==
    \/ KernelUevent
    \/ InotifyCloseWrite
    \/ AdminCtrl
    \/ AdminSignal
    \/ StrayDatagram
    \/ \E pid \in PIDS : ChildFinish(pid)
    \/ \E pid \in PIDS : ChildReceive(pid)
    \/ \E pid \in PIDS : ChildTerm(pid)
    \/ \E pid \in PIDS : ChildKilled(pid)
    \/ \E pid \in PIDS : ChildCrash(pid)
    \/ ClockAdvance

Next == Broker \/ Environment

Spec == Init /\ [][Next]_vars

\* SpecWorker: one worker subprocess from its fork to its exit
InitWorker == InitMain /\ wproc \in {Forked(dev) : dev \in WorkerDevices}

NextWorker ==
    \/ WorkerSetup
    \/ WorkerEventNew
    \/ WorkerLock
    \/ WorkerRules
    \/ WorkerSendDevice
    \/ WorkerSend
    \/ WorkerReceive
    \/ WorkerWaitTerm
    \/ WorkerExit
    \/ ParentSendsDevice
    \/ ParentSendsTerm
    \/ ParentSendsKill

SpecWorker == InitWorker /\ [][NextWorker]_vars

(***************************************************************************)
(* SpecBusy: the event queue alone.  Events are inserted at the tail in    *)
(* seqnum order (event_queue_insert), leave in any order (event_free), and *)
(* are scanned by is_devpath_busy, which leaves its memo in                *)
(* delaying_seqnum as event_queue_start has it do.                         *)
(***************************************************************************)
InitBusy == Init /\ arg_children_max = MaxChildren

BusyInsert ==
    /\ nl_recv < MaxBusy
    /\ \E dev \in BusyDevices :
        event_list' = event_queue_insert(event_list, dev, nl_recv + 1)
    /\ nl_recv' = nl_recv + 1
    /\ UNCHANGED <<workers, arg_children_max, stop_exec_queue, reload,
                   udev_exit, rules, monitor, queue_file, properties_list, pc,
                   ev, kernel_sent, worker_watch, child, sigpending,
                   ctrl_queue, inotify_queue, inputs, histVars, wproc>>

BusyRemove ==
    /\ \E k \in 1..Len(event_list) :
        event_list' = event_free(event_list, workers, event_list[k].seqnum)[1]
    /\ UNCHANGED <<workers, arg_children_max, stop_exec_queue, reload,
                   udev_exit, rules, monitor, queue_file, properties_list, pc,
                   ev, envVars, histVars, wproc>>

BusyScan ==
    /\ \E k \in 1..Len(event_list) :
        LET busy == is_devpath_busy(event_list, event_list[k]) IN
        event_list' = [event_list EXCEPT ![k].delaying_seqnum =
                                             busy.delaying_seqnum]
    /\ UNCHANGED <<workers, arg_children_max, stop_exec_queue, reload,
                   udev_exit, rules, monitor, queue_file, properties_list, pc,
                   ev, envVars, histVars, wproc>>

NextBusy == BusyInsert \/ BusyRemove \/ BusyScan

SpecBusy == InitBusy /\ [][NextBusy]_vars

(***************************************************************************)
(* The blocking relation, rule by rule.  L and E are events or devices;    *)
(* L is the earlier one.                                                   *)
(***************************************************************************)
\* p is a proper prefix of q and q goes on with a '/'
PrefixAtSlash(p, q) ==
    /\ Len(p) < Len(q)
    /\ SubSeq(q, 1, Len(p)) = p
    /\ q[Len(p) + 1] = "/"

\* rules 2, 3, 5 and 6, on which the code and the specification agree
SameIfindex(L, E) == E.ifindex # 0 /\ E.ifindex = L.ifindex

OldName(L, E) == E.devpath_old # NULL /\ E.devpath_old = L.devpath

Ancestor(L, E) == PrefixAtSlash(L.devpath, E.devpath)

Descendant(L, E) == PrefixAtSlash(E.devpath, L.devpath)

\* rules 1 and 4 with "the device has a devnum" read as major(devnum) != 0
Blocks(L, E) ==
    \/ /\ E.devnum[1] # 0
       /\ E.devnum = L.devnum
       /\ E.is_block = L.is_block
    \/ SameIfindex(L, E)
    \/ OldName(L, E)
    \/ /\ E.devpath = L.devpath
       /\ E.devnum[1] # 0 => E.devnum = L.devnum /\ E.is_block = L.is_block
       /\ E.ifindex # 0 => E.ifindex = L.ifindex
    \/ Ancestor(L, E)
    \/ Descendant(L, E)

\* rules 1 and 4 with "the device has a devnum" read as devnum != 0
SpecBlocks(L, E) ==
    \/ /\ E.devnum # <<0, 0>>
       /\ E.devnum = L.devnum
       /\ E.is_block = L.is_block
    \/ SameIfindex(L, E)
    \/ OldName(L, E)
    \/ /\ E.devpath = L.devpath
       /\ E.devnum # <<0, 0>> => E.devnum = L.devnum /\ E.is_block = L.is_block
       /\ E.ifindex # 0 => E.ifindex = L.ifindex
    \/ Ancestor(L, E)
    \/ Descendant(L, E)

\* the uevents with seqnums a < b, a blocking b
BlockingPair(a, b) ==
    /\ a \in 1..Len(kernel_sent)
    /\ b \in 1..Len(kernel_sent)
    /\ a < b
    /\ Blocks(kernel_sent[a], kernel_sent[b])

Dispatched(seqnum) == \E i \in 1..Len(started) : started[i] = seqnum

\* the event at list position k has a blocker before it in the list
Blocked(k) == \E i \in 1..(k - 1) : Blocks(event_list[i], event_list[k])

(***************************************************************************)
(* C1.  Of two uevents of which the one with the lower seqnum blocks the   *)
(* other (rules 1-6), the later one is dispatched only after the earlier   *)
(* one was: whenever the later one has its start time, the earlier one got *)
(* its start time strictly before.                                         *)
(***************************************************************************)
C1_BlockerDispatchedFirst ==
    \A a, b \in 1..Len(kernel_sent) :
        BlockingPair(a, b) /\ Dispatched(b) =>
            \E i, j \in 1..Len(started) :
                i < j /\ started[i] = a /\ started[j] = b

\* both events of a blocking pair have been dispatched
C1_Witness ==
    \E a, b \in 1..Len(kernel_sent) :
        BlockingPair(a, b) /\ Dispatched(a) /\ Dispatched(b)

(***************************************************************************)
(* C2.  No event is Running while an event before it in the list blocks    *)
(* it, whatever the state of that earlier event and of its worker.         *)
(***************************************************************************)
C2_NoRunningBehindBlocker ==
    \A k \in 1..Len(event_list) :
        event_list[k].state = EVENT_RUNNING => ~Blocked(k)

\* an event stays Queued behind a blocker that is Running on a Killed worker
C2_Witness ==
    \E i, k \in 1..Len(event_list) :
        /\ i < k
        /\ Blocks(event_list[i], event_list[k])
        /\ event_list[i].state = EVENT_RUNNING
        /\ workers[event_list[i].worker].state = WORKER_KILLED
        /\ event_list[k].state = EVENT_QUEUED
        /\ event_list[k].delaying_seqnum = event_list[i].seqnum

(***************************************************************************)
(* C3.  Every worker has at most one event and every event at most one     *)
(* worker, the two links agree (worker->event is E exactly when E->worker  *)
(* is the worker), and no assert of worker_attach_event has failed.        *)
(***************************************************************************)
C3_LinksAgree ==
    /\ pass # "aborted"
    /\ \A pid \in DOMAIN workers :
        workers[pid].event # NO_EVENT =>
            \E k \in 1..Len(event_list) :
                /\ event_list[k].seqnum = workers[pid].event
                /\ event_list[k].worker = pid
    /\ \A k \in 1..Len(event_list) :
        event_list[k].worker # NO_WORKER =>
            /\ event_list[k].worker \in DOMAIN workers
            /\ workers[event_list[k].worker].event = event_list[k].seqnum
    /\ \A p, q \in DOMAIN workers :
        workers[p].event = workers[q].event => p = q \/ workers[p].event = NO_EVENT
    /\ \A i, k \in 1..Len(event_list) :
        event_list[i].seqnum = event_list[k].seqnum => i = k

\* event_run has attached a second event to the only worker there is
C3_Witness ==
    /\ Len(started) >= 2
    /\ \E pid \in DOMAIN workers :
        /\ DOMAIN workers = {pid}
        /\ workers[pid].state = WORKER_RUNNING
        /\ workers[pid].event = started[Len(started)]
        /\ started[Len(started)] \in {child[pid].rx[i] : i \in 1..Len(child[pid].rx)}

(***************************************************************************)
(* C4.  As claimed: the worker map never holds more than children_max      *)
(* workers.                                                                *)
(***************************************************************************)
C4_WorkersWithinCap == Cardinality(DOMAIN workers) <= arg_children_max

(***************************************************************************)
(* C4, amended.  The worker map grows only up to children_max: a step that *)
(* adds workers leaves at most children_max of them.  (It holds more than  *)
(* children_max only after SET_MAX_CHILDREN has set the cap below the      *)
(* number of workers there are.)                                           *)
(***************************************************************************)
C4_GrowsWithinCap ==
    [][Cardinality(DOMAIN workers') > Cardinality(DOMAIN workers) =>
          Cardinality(DOMAIN workers') <= arg_children_max']_vars

\* SET_MAX_CHILDREN has set a positive cap below the number of workers
C4_Witness ==
    /\ arg_children_max > 0
    /\ Cardinality(DOMAIN workers) > arg_children_max

(***************************************************************************)
(* C5.  When event_queue_start returns and no fork and no unicast send     *)
(* has failed in it, no event is Queued and not blocked while a worker is  *)
(* Idle or the number of workers is below children_max.                    *)
(***************************************************************************)
Starved ==
    \E k \in 1..Len(event_list) :
        /\ event_list[k].state = EVENT_QUEUED
        /\ ~Blocked(k)
        /\ IdleWorkers # {} \/ Cardinality(DOMAIN workers) < arg_children_max

C6_ScanIsSpecBlocks ==
    \A k \in 1..Len(event_list) :
        is_devpath_busy(event_list, event_list[k]).ret <=>
            \E i \in 1..(k - 1) : SpecBlocks(event_list[i], event_list[k])

(***************************************************************************)
(* C6, amended.  For every event E of the queue, is_devpath_busy(E)        *)
(* returns true exactly when an event before E in the queue satisfies one  *)
(* of the conditions 1-6, conditions 1 and 4 testing major(devnum(E)) != 0,*)
(* whatever earlier calls have left in delaying_seqnum(E).                 *)
(***************************************************************************)
C6_ScanIsBlocks ==
    \A k \in 1..Len(event_list) :
        is_devpath_busy(event_list, event_list[k]).ret <=> Blocked(k)

\* the memoized blocker of an event has left the queue, and the scan finds
\* the event blocked by another one
C6_Witness ==
    \E k \in 1..Len(event_list) :
        /\ event_list[k].delaying_seqnum > 0
        /\ IndexOf(event_list, event_list[k].delaying_seqnum) = 0
        /\ is_devpath_busy(event_list, event_list[k]).ret

(***************************************************************************)
(* C7.  If delaying_seqnum(E) = s > 0 and is_devpath_busy(E) returns       *)
(* false, no event of the queue with a seqnum <= s blocks E.               *)
(***************************************************************************)
C7_MemoSound ==
    \A k \in 1..Len(event_list) :
        LET E == event_list[k] IN
        E.delaying_seqnum > 0 /\ ~is_devpath_busy(event_list, E).ret =>
            \A i \in 1..Len(event_list) :
                event_list[i].seqnum <= E.delaying_seqnum =>
                    ~(i < k /\ Blocks(event_list[i], E))

\* the memoized blocker has left, the scan returns false, and an event with
\* a seqnum below the memo is still in the queue
C7_Witness ==
    \E i, k \in 1..Len(event_list) :
        /\ event_list[k].delaying_seqnum > 0
        /\ ~is_devpath_busy(event_list, event_list[k]).ret
        /\ event_list[i].seqnum < event_list[k].delaying_seqnum

(***************************************************************************)
(* C8.  Of two events of the queue of which one's devpath is a prefix of   *)
(* the other's ending at a '/', the later one is found busy, whichever of  *)
(* the two is the ancestor and whatever their devnum, is_block and         *)
(* ifindex.                                                                *)
(***************************************************************************)
C8_PrefixBlocks ==
    \A i, k \in 1..Len(event_list) :
        /\ i < k
        /\ \/ PrefixAtSlash(event_list[i].devpath, event_list[k].devpath)
           \/ PrefixAtSlash(event_list[k].devpath, event_list[i].devpath)
        => is_devpath_busy(event_list, event_list[k]).ret

\* a descendant with a devnum behind its ancestor with an ifindex, and an
\* ancestor behind its descendant, both found busy
C8_Witness ==
    /\ Len(event_list) = 3
    /\ Ancestor(event_list[1], event_list[2])
    /\ Descendant(event_list[2], event_list[3])
    /\ event_list[1].ifindex # event_list[2].ifindex
    /\ event_list[2].devnum # event_list[3].devnum
    /\ is_devpath_busy(event_list, event_list[2]).ret
    /\ is_devpath_busy(event_list, event_list[3]).ret

(***************************************************************************)
(* C9.  Whenever the reactor is at its readiness wait, /run/udev/queue     *)
(* exists if and only if the event list is not empty, in normal running    *)
(* and while draining at shutdown.                                         *)
(***************************************************************************)
C9_SettleHonesty == pc = "wait" => (queue_file <=> event_list # <<>>)

\* at the wait while draining at shutdown, an event still in the list
C9_Witness ==
    /\ pc = "wait"
    /\ udev_exit
    /\ event_list # <<>>
    /\ queue_file

(***************************************************************************)
(* C10.  As claimed: at the readiness wait /run/udev/queue exists if and   *)
(* only if the event list or the worker map is not empty.                  *)
(***************************************************************************)
C10_MarkerCountsWorkers ==
    pc = "wait" => (queue_file <=> (event_list # <<>> \/ DOMAIN workers # {}))

(***************************************************************************)
(* C10, amended.  The marker reports the event list alone: at the          *)
(* readiness wait with workers in the worker map, /run/udev/queue exists   *)
(* if the event list is not empty and does not exist if it is empty.       *)
(***************************************************************************)
C10_MarkerIgnoresWorkers ==
    pc = "wait" /\ DOMAIN workers # {} =>
        /\ event_list # <<>> => queue_file
        /\ event_list = <<>> => ~queue_file

\* at the wait with a worker, no event and no marker
C10_Witness ==
    /\ pc = "wait"
    /\ DOMAIN workers # {}
    /\ event_list = <<>>
    /\ ~queue_file

(***************************************************************************)
(* C11.  As claimed: every worker reaped with an event attached has that   *)
(* event's device state deleted and its kernel event forwarded, whatever   *)
(* the exit status.                                                        *)
(***************************************************************************)
C11_ReapForwardsAlways ==
    \A i \in 1..Len(reaped) : reaped[i].forwarded

(***************************************************************************)
(* C11, amended.  A worker reaped with an event attached has the kernel    *)
(* event forwarded exactly when it did not exit with status 0; after       *)
(* exit(0) the event is freed and nothing is forwarded.  Either way the    *)
(* worker and the event are gone afterwards.                               *)
(***************************************************************************)
C11_ReapForwardsOnFailure ==
    /\ \A i \in 1..Len(reaped) :
        /\ reaped[i].forwarded <=> reaped[i].status # "exited 0"
        /\ IndexOf(event_list, reaped[i].seqnum) = 0
    /\ \A pid \in DOMAIN workers : pid \in DOMAIN child

\* a worker that did not exit with 0 was reaped with an event attached, and
\* the kernel event was forwarded
C11_Witness ==
    \E i \in 1..Len(reaped) :
        reaped[i].status # "exited 0" /\ reaped[i].forwarded

(***************************************************************************)
(* SpecLive: the daemon with kernel uevents, signals, the clock and its    *)
(* worker subprocesses, under the scheduling the code and the kernel       *)
(* guarantee.  The reactor loop never stops by itself: every step of       *)
(* main() that can be taken is taken.  A worker subprocess dies of a       *)
(* SIGKILL sent to it, and leaves its epoll_wait when SIGTERM or a device  *)
(* is there for it.  That a worker finishes the event it works on is not   *)
(* guaranteed: a rule program may hang.                                    *)
(***************************************************************************)
MaxLiveSeq == 2

\* the devices the kernel reports here: one, so that a second uevent waits
\* for the first
LiveDevices == {Dev_a_blk}

\* the kernel emits a uevent; its seqnum is the next one
LiveUevent ==
    /\ Running
    /\ Len(kernel_sent) < MaxLiveSeq
    /\ inputs < MaxInputs
    /\ \E dev \in LiveDevices : kernel_sent' = Append(kernel_sent, dev)
    /\ inputs' = inputs + 1
    /\ UNCHANGED <<brokerVars, nl_recv, worker_watch, child, sigpending,
                   ctrl_queue, inotify_queue, histVars, wproc>>

LiveBroker ==
    \/ LoopTop
    \/ EpollWait
    \/ Timeout
    \/ CheckReload
    \/ OnWorker
    \/ OnUevent
    \/ StartEvents
    \/ OnSignal
    \/ QueueUpdate

LiveEnvironment ==
    \/ LiveUevent
    \/ AdminSignal
    \/ \E pid \in PIDS : ChildFinish(pid)
    \/ \E pid \in PIDS : ChildReceive(pid)
    \/ \E pid \in PIDS : ChildTerm(pid)
    \/ \E pid \in PIDS : ChildKilled(pid)
    \/ \E pid \in PIDS : ChildCrash(pid)
    \/ ClockAdvance

NextLive == LiveBroker \/ LiveEnvironment

Fairness ==
    /\ WF_vars(LiveBroker)
    /\ \A pid \in PIDS :
        /\ WF_vars(ChildKilled(pid))
        /\ WF_vars(ChildTerm(pid))
        /\ WF_vars(ChildReceive(pid))

SpecLive == Init /\ [][NextLive]_vars /\ Fairness

\* the event with this seqnum is Running for longer than the event timeout
Hung(s) ==
    \E k \in 1..Len(event_list) :
        /\ event_list[k].seqnum = s
        /\ event_list[k].state = EVENT_RUNNING
        /\ event_list[k].age = "fatal"

\* the worker of the event with this seqnum is Killed and was sent SIGKILL
Sigkilled(s) ==
    \E pid \in DOMAIN workers :
        /\ workers[pid].event = s
        /\ workers[pid].state = WORKER_KILLED
        /\ pid \in DOMAIN child
        /\ "SIGKILL" \in child[pid].sig \/ child[pid].status = "signaled"

\* the event with this seqnum left the queue, or the daemon left its loop
Gone(s) == IndexOf(event_list, s) = 0 \/ pc = "stopped"

(***************************************************************************)
(* C12.  Every event Running for longer than the event timeout eventually  *)
(* has its worker sent SIGKILL and marked Killed, unless it left the queue *)
(* before; whatever the state of its worker.                               *)
(***************************************************************************)
C12_HungEventKilled ==
    \A s \in 1..MaxLiveSeq : Hung(s) ~> (Sigkilled(s) \/ Gone(s))

\* the same for the events whose worker is not marked Killed by worker_kill
C12_HungRunningKilled ==
    \A s \in 1..MaxLiveSeq :
        Hung(s) ~> \/ Sigkilled(s) \/ Gone(s)
                   \/ \E pid \in DOMAIN workers :
                        workers[pid].event = s /\ workers[pid].state = WORKER_KILLED

(***************************************************************************)
(* C13.  Killed is absorbing: in every step a worker that is Killed and    *)
(* still in the map afterwards is still Killed, has no other event         *)
(* attached than before, and was sent no further signal; when its event    *)
(* goes (its completion message was read), that event left the list.       *)
(***************************************************************************)
C13_KilledAbsorbing ==
    [][\A pid \in DOMAIN workers :
        (workers[pid].state = WORKER_KILLED /\ pid \in DOMAIN workers') =>
            /\ workers'[pid].state = WORKER_KILLED
            /\ workers'[pid].event \in {workers[pid].event, NO_EVENT}
            /\ workers'[pid].event # workers[pid].event =>
                    IndexOf(event_list', workers[pid].event) = 0
            /\ (pid \in DOMAIN child /\ pid \in DOMAIN child') =>
                    child'[pid].sig \subseteq child[pid].sig]_vars

\* a worker killed by the timeout sweep went through the worker_kill of a
\* reload: it holds SIGKILL and no SIGTERM, and the rules are dropped
C13_Witness ==
    \E pid \in DOMAIN workers :
        /\ workers[pid].state = WORKER_KILLED
        /\ pid \in DOMAIN child
        /\ child[pid].sig = {"SIGKILL"}
        /\ ~rules

(***************************************************************************)
(* C14.  In every reachable state an Idle worker has no event attached, a  *)
(* Running worker has an event attached that is in the event list in state *)
(* Running, and a Queued event has no worker; so the assert(event) of the  *)
(* timeout sweep holds for every Running worker.                           *)
(***************************************************************************)
C14_StatesAgree ==
    /\ \A pid \in DOMAIN workers :
        /\ workers[pid].state = WORKER_IDLE => workers[pid].event = NO_EVENT
        /\ workers[pid].state = WORKER_RUNNING =>
            /\ workers[pid].event # NO_EVENT
            /\ \E k \in 1..Len(event_list) :
                /\ event_list[k].seqnum = workers[pid].event
                /\ event_list[k].state = EVENT_RUNNING
    /\ \A k \in 1..Len(event_list) :
        event_list[k].state = EVENT_QUEUED => event_list[k].worker = NO_WORKER

\* the timeout sweep is about to run with an Idle worker, a Running worker
\* and a Queued event
C14_Witness ==
    /\ pc = "timeout"
    /\ \E p, q \in DOMAIN workers :
        /\ workers[p].state = WORKER_IDLE
        /\ workers[q].state = WORKER_RUNNING
    /\ \E k \in 1..Len(event_list) : event_list[k].state = EVENT_QUEUED

(***************************************************************************)
(* C15.  Completion idempotence: on_worker reading one completion message  *)
(* of a worker that is Idle gives back the event list and the worker map   *)
(* as they were: every worker's state, the events, their states and the    *)
(* attachments.                                                            *)
(***************************************************************************)
C15_IdleCompletionNoop ==
    \A pid \in DOMAIN workers :
        workers[pid].state = WORKER_IDLE =>
            on_worker(event_list, workers, <<Datagram(TRUE, pid)>>)
                = <<event_list, workers>>

\* on_worker is about to run with an Idle worker in the map, a Running one
\* whose message is pending, and events in the list
C15_Witness ==
    /\ pc = "worker"
    /\ worker_watch # <<>>
    /\ \E k \in 1..Len(event_list) : event_list[k].state = EVENT_RUNNING
    /\ \E pid \in DOMAIN workers : workers[pid].state = WORKER_IDLE

\* the step of main() that processes a pending reload
ReloadStep ==
    /\ pc = "reload"
    /\ pc' # "reload"
    /\ reload \/ (rules /\ ~rules')

(***************************************************************************)
(* C16.  The step that processes a pending reload marks every worker       *)
(* Killed, drops the rules, clears the reload flag and leaves the event    *)
(* list as it is; and a step that dispatches an event has the rules        *)
(* loaded.                                                                 *)
(***************************************************************************)
C16_ReloadFrame ==
    [][/\ ReloadStep =>
            /\ DOMAIN workers' = DOMAIN workers
            /\ \A pid \in DOMAIN workers :
                workers'[pid] = [workers[pid] EXCEPT !.state = WORKER_KILLED]
            /\ ~rules'
            /\ ~reload'
            /\ event_list' = event_list
       /\ started' # started => rules']_vars

\* a reload was processed with a Running worker, an Idle worker and a Queued
\* event there: both workers are Killed, one still holds its event, the
\* rules are gone
C16_Witness ==
    /\ ~rules
    /\ ~reload
    /\ \E p, q \in DOMAIN workers :
        /\ workers[p].state = WORKER_KILLED /\ workers[p].event # NO_EVENT
        /\ workers[q].state = WORKER_KILLED /\ workers[q].event = NO_EVENT
    /\ \E k \in 1..Len(event_list) : event_list[k].state = EVENT_QUEUED

\* worker pid was marked Killed by worker_kill (reload, SET_ENV,
\* SET_LOG_LEVEL) and has not acted on the SIGTERM yet
KilledByTerm(pid) ==
    /\ pid \in DOMAIN workers
    /\ workers[pid].state = WORKER_KILLED
    /\ pid \in DOMAIN child
    /\ "SIGTERM" \in child[pid].sig
    /\ ~udev_exit

(***************************************************************************)
(* C17.  As claimed: once reload or SET_ENV has killed the workers, the    *)
(* events they were processing are not in the event list in state Running  *)
(* any more.                                                               *)
(***************************************************************************)
C17_KilledEventsFreed ==
    \A pid \in DOMAIN workers :
        KilledByTerm(pid) => workers[pid].event = NO_EVENT

(***************************************************************************)
(* C17, amended.  The steps that kill the workers (reload, control         *)
(* messages) leave the event list as it is: the events of the killed       *)
(* workers stay in the list in state Running.  A Running event is never    *)
(* Queued again nor given to another worker; it leaves the list only when  *)
(* on_worker reads the completion message, when on_sigchld reaps the       *)
(* worker, or when the daemon leaves its loop.                             *)
(***************************************************************************)
C17_KilledEventsStay ==
    [][/\ (pc \in {"reload", "ctrl"} /\ pc' # pc) => event_list' = event_list
       /\ \A k \in 1..Len(event_list) :
            event_list[k].state = EVENT_RUNNING =>
                LET j == IndexOf(event_list', event_list[k].seqnum) IN
                IF j = 0
                THEN pc \in {"worker", "signal"} \/ pc' = "stopped"
                ELSE /\ event_list'[j].state = EVENT_RUNNING
                     /\ event_list'[j].worker = event_list[k].worker]_vars

\* a worker killed by reload or a control message still holds its event,
\* Running, and a Queued event behind it is blocked by that event
C17_Witness ==
    \E pid \in DOMAIN workers :
        /\ KilledByTerm(pid)
        /\ \E i, k \in 1..Len(event_list) :
            /\ i < k
            /\ event_list[i].seqnum = workers[pid].event
            /\ event_list[i].state = EVENT_RUNNING
            /\ event_list[k].state = EVENT_QUEUED
            /\ Blocks(event_list[i], event_list[k])
            /\ pc = "signal"

(***************************************************************************)
(* C18.  While stop_exec_queue is set no step dispatches an event: every   *)
(* Queued event stays Queued or leaves the list.  on_uevent still appends  *)
(* the uevent it receives, Queued.  With the flag clear, a start pass      *)
(* without failure that finds a Queued event not blocked and a worker      *)
(* Idle or room for one dispatches.                                        *)
(***************************************************************************)
C18_StopHoldsDispatch ==
    [][/\ stop_exec_queue =>
            /\ started' = started
            /\ \A k \in 1..Len(event_list) :
                event_list[k].state = EVENT_QUEUED =>
                    LET j == IndexOf(event_list', event_list[k].seqnum) IN
                    j # 0 => event_list'[j].state = EVENT_QUEUED
       /\ (stop_exec_queue /\ pc = "netlink" /\ pc' # pc
                /\ nl_recv < Len(kernel_sent)) =>
            /\ Len(event_list') = Len(event_list) + 1
            /\ event_list'[Len(event_list')].seqnum = nl_recv + 1
            /\ event_list'[Len(event_list')].state = EVENT_QUEUED
       /\ (~stop_exec_queue /\ ~udev_exit /\ pc = "start" /\ pc' # pc
                /\ Starved /\ pass' = "clean") =>
            started' # started]_vars

\* the start of events was skipped with the flag set: an event received
\* is Queued, nothing blocks it, and a worker is Idle or may be spawned
C18_Witness ==
    /\ stop_exec_queue
    /\ pc = "update"
    /\ "netlink" \in ev
    /\ Starved

\* every event of the list is Running and every worker is Killed
Drained ==
    /\ \A k \in 1..Len(event_list) : event_list[k].state = EVENT_RUNNING
    /\ \A pid \in DOMAIN workers : workers[pid].state = WORKER_KILLED

(***************************************************************************)
(* C19.  Once udev_exit is set it stays set, no event is inserted into the *)
(* queue (no uevent is received, the list gets no new seqnum), no event is *)
(* dispatched, and neither on_inotify nor on_ctrl_msg runs.  The next pass *)
(* of the loop top removes the Queued events and marks every worker        *)
(* Killed; from then on the list holds only Running events.                *)
(***************************************************************************)
C19_ExitClosesSources ==
    [][udev_exit =>
        /\ udev_exit'
        /\ nl_recv' = nl_recv
        /\ \A j \in 1..Len(event_list') :
                IndexOf(event_list, event_list'[j].seqnum) # 0
        /\ started' = started
        /\ pc \notin {"netlink", "inotify", "ctrl"}
        /\ (pc = "top" /\ pc' # pc) => Drained'
        /\ (~monitor /\ Drained) => Drained']_vars

\* the daemon waits for its workers at exit: the sources are closed, of the
\* two events received a Running one is left with its worker Killed, and a
\* uevent of the kernel stays unread
C19_Witness ==
    /\ udev_exit
    /\ ~monitor
    /\ pc = "wait"
    /\ Len(event_list) = 1
    /\ nl_recv = 2
    /\ Len(kernel_sent) = 3
    /\ Drained

(***************************************************************************)
(* C20.  After udev_exit is set the loop of main() is left eventually.  It *)
(* is left at exit only at the loop top with no Running event and no       *)
(* worker, or when epoll_wait has timed out.                               *)
(***************************************************************************)
C20_ExitTerminates ==
    /\ udev_exit ~> pc = "stopped"
    /\ [][(udev_exit /\ pc # "stopped" /\ pc' = "stopped") =>
            \/ pc = "timeout"
            \/ /\ pc = "top"
               /\ DOMAIN workers = {}
               /\ \A k \in 1..Len(event_list) :
                    event_list[k].state = EVENT_QUEUED]_vars

\* the daemon left its loop at exit while a worker subprocess is still at
\* work on its event
C20_Witness ==
    /\ pc = "stopped"
    /\ udev_exit
    /\ \E pid \in DOMAIN child : child[pid].st = "run"

\* event_run(event) for the event at list position k of the present state,
\* with no send and no fork failing
RunNow(k) ==
    event_run([list |-> event_list, workers |-> workers, child |-> child,
               started |-> started, failed |-> 0, aborted |-> FALSE],
              k, arg_children_max, {}, FALSE)

\* the list with the event at position k Running on worker pid
AttachedTo(k, pid) ==
    [event_list EXCEPT ![k].state = EVENT_RUNNING, ![k].worker = pid,
                       ![k].age = "young", ![k].warned = FALSE]

FirstIdle == CHOOSE p \in IdleWorkers : \A q \in IdleWorkers : p <= q

\* event_run(event) for the event at list position k of the present state,
\* the send to the first Idle worker failing
RunSendFailing(k) ==
    event_run([list |-> event_list, workers |-> workers, child |-> child,
               started |-> started, failed |-> 0, aborted |-> FALSE],
              k, arg_children_max, {FirstIdle}, FALSE)

\* in r the worker tried first is Killed, was sent SIGKILL and holds no event
SendFailureKills(r) ==
    /\ r.workers[FirstIdle] = Worker(WORKER_KILLED, NO_EVENT)
    /\ \A j \in 1..Len(r.list) : r.list[j].worker # FirstIdle
    /\ FirstIdle \in DOMAIN child /\ child[FirstIdle].st # "zombie" =>
            "SIGKILL" \in r.child[FirstIdle].sig

Dropped(msg) == ~msg.size_ok \/ msg.pid <= 0 \/ msg.pid \notin DOMAIN workers

Kept(msg) == ~Dropped(msg)

(***************************************************************************)
(* C23.  on_worker on the pending datagrams gives what it gives on the     *)
(* pending datagrams without those of the wrong size, without valid        *)
(* credentials or of a pid that is not in the worker map: such a datagram  *)
(* changes no worker and frees no event, and the ones behind it are still  *)
(* processed.                                                              *)
(***************************************************************************)
C23_BadDatagramsDropped ==
    /\ on_worker(event_list, workers, worker_watch)
            = on_worker(event_list, workers, SelectSeq(worker_watch, Kept))
    /\ \A i \in 1..Len(worker_watch) :
        Dropped(worker_watch[i]) =>
            on_worker(event_list, workers, <<worker_watch[i]>>)
                = <<event_list, workers>>

\* on_worker is about to read a datagram it drops and, behind it, the
\* completion message of a worker with an event
C23_Witness ==
    /\ pc = "worker"
    /\ \E i, j \in 1..Len(worker_watch) :
        /\ i < j
        /\ Dropped(worker_watch[i])
        /\ Kept(worker_watch[j])
        /\ workers[worker_watch[j].pid].event # NO_EVENT

\* on_ctrl_msg handles the message at the head of the queue in this step
CtrlStep(type) ==
    /\ pc = "ctrl"
    /\ pc' # pc
    /\ Head(ctrl_queue).type = type

(***************************************************************************)
(* C24.  A SET_ENV message whose string has no '=' is ignored: the step    *)
(* that handles it leaves the properties, the workers and their            *)
(* subprocesses as they are, and the daemon goes on.                       *)
(***************************************************************************)
C24_MalformedEnvIgnored ==
    [][(CtrlStep("SET_ENV") /\ strchr_eq(Head(ctrl_queue).arg) = 0) =>
            /\ properties_list' = properties_list
            /\ workers' = workers
            /\ child' = child
            /\ pc' = "top"]_vars

(***************************************************************************)
(* C25.  SET_MAX_CHILDREN(n) changes the cap and nothing else: the step    *)
(* that handles it sets arg_children_max to n and leaves the workers,      *)
(* their subprocesses, the event list and the flags stop_exec_queue,       *)
(* reload and udev_exit as they are.                                       *)
(***************************************************************************)
C25_CapOnly ==
    [][CtrlStep("SET_MAX_CHILDREN") =>
            /\ arg_children_max' = Head(ctrl_queue).arg[1]
            /\ workers' = workers
            /\ child' = child
            /\ event_list' = event_list
            /\ stop_exec_queue' = stop_exec_queue
            /\ reload' = reload
            /\ udev_exit' = udev_exit
            /\ properties_list' = properties_list
            /\ rules' = rules]_vars

\* the cap was set to 0 with a worker at work: the worker is still Running
\* on its event
C25_Witness ==
    /\ arg_children_max = 0
    /\ pc = "top"
    /\ \E pid \in DOMAIN workers :
        /\ workers[pid].state = WORKER_RUNNING
        /\ pid \in DOMAIN child /\ child[pid].sig = {}

(***************************************************************************)
(* C26.  Each event is dispatched at most once: no seqnum got a start time *)
(* twice, a Queued event never had one, a Running event is attached to the *)
(* worker it was given to, and the event of a worker that was reaped with  *)
(* it (after a crash, a kill at the timeout or a kill by reload) is gone   *)
(* from the list.                                                          *)
(***************************************************************************)
C26_DispatchedOnce ==
    /\ \A i, j \in 1..Len(started) : i # j => started[i] # started[j]
    /\ \A k \in 1..Len(event_list) :
        /\ event_list[k].state = EVENT_QUEUED =>
                ~Dispatched(event_list[k].seqnum)
        /\ event_list[k].state = EVENT_RUNNING =>
                /\ Dispatched(event_list[k].seqnum)
                /\ event_list[k].worker \in DOMAIN workers
                /\ workers[event_list[k].worker].event = event_list[k].seqnum
    /\ \A i \in 1..Len(reaped) : IndexOf(event_list, reaped[i].seqnum) = 0

\* a worker was reaped with its event after a failure, and a later event
\* was dispatched since: the first event is gone, the later one is Running
C26_Witness ==
    \E i \in 1..Len(reaped) :
        /\ reaped[i].forwarded
        /\ \E k \in 1..Len(event_list) :
            /\ event_list[k].state = EVENT_RUNNING
            /\ event_list[k].seqnum > reaped[i].seqnum
        /\ \E j \in 1..Len(event_list) : event_list[j].state = EVENT_QUEUED

\* main() runs the block at pc in this step
BlockStep(block) == pc = block /\ pc' # pc

(***************************************************************************)
(* C27.  As claimed: when on_worker has run, every worker whose completion *)
(* datagram was pending is Idle, for the dispatch pass to reuse it.        *)
(***************************************************************************)
C27_CompletedWorkersIdle ==
    [][BlockStep("worker") =>
        \A i \in 1..Len(worker_watch) :
            Kept(worker_watch[i]) =>
                workers'[worker_watch[i].pid].state = WORKER_IDLE]_vars

(***************************************************************************)
(* C27, amended.  In one iteration on_worker reads all pending completion  *)
(* datagrams, then on_uevent inserts the uevent it receives, and only then *)
(* events are dispatched.  A worker whose completion was read is Idle then *)
(* unless it was marked Killed, in which case it stays Killed and is not   *)
(* reused.  A dispatch pass in which nothing fails uses up the Idle        *)
(* workers before it spawns one.                                           *)
(***************************************************************************)
C27_DrainBeforeDispatch ==
    [][/\ BlockStep("worker") =>
            /\ worker_watch' = <<>>
            /\ pc' \in {"netlink", "start"}
            /\ \A i \in 1..Len(worker_watch) :
                Kept(worker_watch[i]) =>
                    LET pid == worker_watch[i].pid IN
                    /\ workers'[pid].event = NO_EVENT
                    /\ workers'[pid].state =
                            IF workers[pid].state = WORKER_KILLED
                            THEN WORKER_KILLED
                            ELSE WORKER_IDLE
       /\ BlockStep("netlink") =>
            /\ pc' = "start"
            /\ nl_recv < Len(kernel_sent) =>
                    /\ nl_recv' = nl_recv + 1
                    /\ IndexOf(event_list', nl_recv + 1) = Len(event_list) + 1
       /\ started' # started => pc = "start"
       /\ (BlockStep("start") /\ pass' = "clean") =>
            LET dispatched == Len(started') - Len(started)
                idle == Cardinality(IdleWorkers)
            IN  Cardinality(DOMAIN workers' \ DOMAIN workers) =
                    IF dispatched > idle THEN dispatched - idle ELSE 0]_vars

\* the dispatch pass is reached in an iteration in which on_worker ran: a
\* worker is Idle, a Queued event is not blocked, and there is room for
\* another worker
C27_Witness ==
    /\ pc = "start"
    /\ "worker" \in ev
    /\ worker_watch = <<>>
    /\ may_start(event_list, udev_exit, stop_exec_queue)
    /\ IdleWorkers # {}
    /\ Cardinality(DOMAIN workers) < arg_children_max
    /\ \E k \in 1..Len(event_list) :
        event_list[k].state = EVENT_QUEUED /\ ~Blocked(k)

(***************************************************************************)
(* C28.  In one iteration the inotify handling, then the marker-file       *)
(* update, come before the control message; the inotify handling leaves    *)
(* every uevent it synthesized in the event list, so the marker file       *)
(* written before the control message reflects a list containing them.     *)
(***************************************************************************)
C28_SynthesizedAllQueued ==
    [][/\ BlockStep("inotify") =>
            /\ pc' = "update"
            /\ \A s \in (Len(kernel_sent) + 1)..Len(kernel_sent') :
                    IndexOf(event_list', s) # 0
       /\ BlockStep("update") =>
            /\ queue_file' = (event_list # <<>>)
            /\ event_list' = event_list
       /\ pc' = "ctrl" => pc \in {"update", "ctrl"}]_vars

\* what does hold: the order of the three blocks, and the inotify handling
\* receiving one uevent for each close-after-write that has one to receive
C28_OneDrainPerClose ==
    [][/\ BlockStep("inotify") =>
            /\ pc' = "update"
            /\ kernel_sent' # kernel_sent => Len(event_list') > Len(event_list)
            /\ nl_recv' <= nl_recv + Len(inotify_queue)
       /\ BlockStep("update") =>
            /\ queue_file' = (event_list # <<>>)
            /\ event_list' = event_list
       /\ pc' = "ctrl" => pc \in {"update", "ctrl"}]_vars

\* the devices, by the order the worker took them, it has published
Published == {wproc.sink[i] : i \in 1..Len(wproc.sink)}

(***************************************************************************)
(* C29.  As claimed: every device for which the worker has sent its        *)
(* completion datagram was published to the sink before, the devices whose *)
(* rules were skipped at the lock included.                                *)
(***************************************************************************)
C29_PublishedBeforeCompletion ==
    \A i \in 1..Len(wproc.sent) : wproc.sent[i] \in Published

(***************************************************************************)
(* C29, amended.  A device whose completion datagram the worker has sent   *)
(* was published to the sink before, once, unless the lock on its node     *)
(* could not be taken: such a device is never published.                   *)
(***************************************************************************)
C29_PublishedUnlessSkipped ==
    /\ \A i \in 1..Len(wproc.sent) :
        wproc.sent[i] \in Published <=> wproc.sent[i] \notin wproc.skipped
    /\ wproc.skipped \cap Published = {}
    /\ \A i, j \in 1..Len(wproc.sink) : i # j => wproc.sink[i] # wproc.sink[j]

\* the worker has reported one device it published and one it skipped
C29_Witness ==
    \E i, j \in 1..Len(wproc.sent) :
        /\ wproc.sent[i] \in Published
        /\ wproc.sent[j] \in wproc.skipped

\* the worker left through _exit, or waits for a device
Settled ==
    \/ wproc.at \in {"wait", "out"}
    \/ wproc.at = "exited" /\ wproc.status # "signaled"

(***************************************************************************)
(* C30.  As claimed: once the worker waits for a device or leaves through  *)
(* the label out, it has sent one completion datagram for each device it   *)
(* took, and no more.                                                      *)
(***************************************************************************)
C30_OnePerDevice ==
    Settled => wproc.sent = [i \in 1..wproc.taken |-> i]

(***************************************************************************)
(* C30, amended.  The worker sends at most one completion datagram for a   *)
(* device, in the order it took them; while it handles a device the one    *)
(* for it is not yet sent; once it waits or leaves through the label out   *)
(* the one for the last device is sent, on the lock-skip path and after a  *)
(* SIGTERM during the rules as well, unless the worker left because the    *)
(* setup or udev_event_new failed: then none is sent for that device.      *)
(* Waiting and leaving send nothing.                                       *)
(***************************************************************************)
C30_OnePerDeviceUnlessFailed ==
    LET all == [i \in 1..wproc.taken |-> i]
        but_last == [i \in 1..(wproc.taken - 1) |-> i]
    IN  /\ wproc.at \in {"setup", "udev_event_new", "lock", "rules",
                         "send_device", "skip"} => wproc.sent = but_last
        /\ Settled =>
                wproc.sent = IF wproc.at # "wait" /\ wproc.r \in {"-errno", "-ENOMEM"}
                             THEN but_last
                             ELSE all
        /\ wproc.at = "exited" /\ wproc.status = "signaled" =>
                wproc.sent \in {but_last, all}
        /\ Len(worker_watch) <= Len(wproc.sent)

\* the worker skipped its first device at the lock, noted a SIGTERM while
\* it ran the rules for its second, and has left the loop
C30_Witness ==
    /\ wproc.at = "out"
    /\ wproc.sigterm
    /\ wproc.taken = 2
    /\ wproc.skipped = {1}
    /\ Len(wproc.sent) = 2

\* worker pid was sent SIGTERM in this step
TermSent(pid) ==
    /\ pid \in DOMAIN child
    /\ "SIGTERM" \notin child[pid].sig
    /\ pid \in DOMAIN child'
    /\ "SIGTERM" \in child'[pid].sig

EventOf(list, seqnum) == list[IndexOf(list, seqnum)]

\* the events of the workers the hanging-event check looks at
SweptSeqnums ==
    {workers[pid].event : pid \in {p \in DOMAIN workers :
                                        workers[p].state = WORKER_RUNNING}}

(***************************************************************************)
(* C32.  As claimed: the timeout sweep sets the warned flag of the event   *)
(* of every Running worker that is older than the warn timeout and not yet *)
(* warned, the events older than the fatal timeout included.               *)
(***************************************************************************)
C32_SweepWarnsAlsoFatal ==
    [][(BlockStep("timeout") /\ ~udev_exit) =>
        \A s \in SweptSeqnums :
            (EventOf(event_list, s).age \in {"warn", "fatal"}
                /\ ~EventOf(event_list, s).warned) =>
                    EventOf(event_list', s).warned]_vars

(***************************************************************************)
(* C32, amended.  The warned flag of an event is set only by the timeout   *)
(* sweep, for the event of a Running worker older than the warn timeout    *)
(* and not older than the fatal one, and it is never cleared while the     *)
(* event is in the list: the warning is emitted at most once.  The sweep   *)
(* sets the flag of every such event not yet warned.  For an event older   *)
(* than the fatal timeout it kills the worker and leaves the flag alone.   *)
(***************************************************************************)
C32_WarnedOnceBelowFatal ==
    [][/\ \A k \in 1..Len(event_list) :
            LET e == event_list[k]
                kept == IndexOf(event_list', e.seqnum) # 0
            IN  /\ (e.warned /\ kept) => EventOf(event_list', e.seqnum).warned
                /\ (~e.warned /\ kept /\ EventOf(event_list', e.seqnum).warned) =>
                        /\ BlockStep("timeout")
                        /\ e.seqnum \in SweptSeqnums
                        /\ e.age = "warn"
       /\ (BlockStep("timeout") /\ ~udev_exit) =>
            \A s \in SweptSeqnums :
                LET e == EventOf(event_list, s) IN
                /\ (e.age = "warn" /\ ~e.warned) => EventOf(event_list', s).warned
                /\ e.age = "fatal" =>
                        /\ EventOf(event_list', s).warned = e.warned
                        /\ workers'[e.worker].state = WORKER_KILLED]_vars

\* an event was warned about, passed the fatal timeout, and its worker was
\* killed by a later sweep
C32_Witness ==
    \E k \in 1..Len(event_list) :
        /\ event_list[k].warned
        /\ event_list[k].age = "fatal"
        /\ event_list[k].worker \in DOMAIN workers
        /\ workers[event_list[k].worker].state = WORKER_KILLED
        /\ "SIGKILL" \in child[event_list[k].worker].sig

\* the workers marked Killed whose record is still in the map
KilledWorkers == {p \in DOMAIN workers : workers[p].state = WORKER_KILLED}

(***************************************************************************)
(* C33.  While the daemon runs, a worker leaves the worker map only in the *)
(* SIGCHLD handling, as a subprocess that has exited and is reaped there;  *)
(* every other step keeps every record.  A Killed worker not yet reaped    *)
(* counts toward children_max: with no Idle worker and the map at the cap, *)
(* Killed workers included, event_run for a Queued event that nothing      *)
(* blocks leaves the event Queued and spawns nothing.                      *)
(***************************************************************************)
C33_RemovedOnlyWhenReaped ==
    /\ [][\A pid \in DOMAIN workers :
            pid \notin DOMAIN workers' =>
                \/ pc' = "stopped"
                \/ /\ pc = "signal"
                   /\ "SIGCHLD" \in sigpending
                   /\ child[pid].st = "zombie"
                   /\ pid \notin DOMAIN child']_vars
    /\ [](\A k \in 1..Len(event_list) :
            (/\ event_list[k].state = EVENT_QUEUED
             /\ ~Blocked(k)
             /\ KilledWorkers # {}
             /\ IdleWorkers = {}
             /\ Cardinality(DOMAIN workers) >= arg_children_max) =>
                /\ RunNow(k).list = event_list
                /\ RunNow(k).workers = workers)

\* the start of events is reached with a Queued event that nothing blocks
\* while a Killed worker, its subprocess still alive, fills the map
C33_Witness ==
    /\ pc = "start"
    /\ may_start(event_list, udev_exit, stop_exec_queue)
    /\ IdleWorkers = {}
    /\ Cardinality(DOMAIN workers) >= arg_children_max
    /\ \E pid \in KilledWorkers : child[pid].st # "zombie"
    /\ \E k \in 1..Len(event_list) :
        event_list[k].state = EVENT_QUEUED /\ ~Blocked(k)

(***************************************************************************)
(* C34.  For every event E in the queue delaying_seqnum(E) <= seqnum(E):   *)
(* delaying_seqnum(E) is 0, or a seqnum below that of E, that is, the      *)
(* seqnum of an event inserted before E.                                   *)
(***************************************************************************)
C34_DelayingBelowSeqnum ==
    \A k \in 1..Len(event_list) :
        LET e == event_list[k] IN
        \/ e.delaying_seqnum = 0
        \/ /\ e.delaying_seqnum \in 1..nl_recv
           /\ e.delaying_seqnum < e.seqnum

\* an event remembers a blocker that has left the queue meanwhile
C34_Witness ==
    \E k \in 1..Len(event_list) :
        /\ event_list[k].delaying_seqnum # 0
        /\ IndexOf(event_list, event_list[k].delaying_seqnum) = 0

(***************************************************************************)
(* SpecDone: SpecLive with workers that do not hang.  Besides the fairness *)
(* of SpecLive, a worker subprocess working on a device eventually sends   *)
(* its completion datagram (unless it is killed or crashes before).        *)
(***************************************************************************)
FairnessDone ==
    /\ Fairness
    /\ \A pid \in PIDS : WF_vars(ChildFinish(pid))

SpecDone == Init /\ [][NextLive]_vars /\ FairnessDone

Forwarded(s) ==
    \E i \in 1..Len(reaped) : reaped[i].seqnum = s /\ reaped[i].forwarded

\* the event of this seqnum was attached to a worker and has left the list
\* though no exit was requested
Handled(s) == Dispatched(s) /\ IndexOf(event_list, s) = 0 /\ ~udev_exit

(***************************************************************************)
(* C36.  No dispatched event is lost: unless an exit was requested, an     *)
(* event that was attached to a worker and has left the event list was     *)
(* published by its worker or forwarded unprocessed by the broker.         *)
(***************************************************************************)
C36_NoEventLost ==
    \A s \in 1..MaxSeq : Handled(s) => (s \in published \/ Forwarded(s))

\* what does hold: an event that left the list unpublished and unforwarded
\* was attached to a worker that was reaped with exit status 0
C36_LostOnlyAtCleanExit ==
    \A s \in 1..MaxSeq :
        Handled(s) =>
            \/ s \in published
            \/ Forwarded(s)
            \/ \E i \in 1..Len(reaped) :
                /\ reaped[i].seqnum = s
                /\ reaped[i].status = "exited 0"

\* the datagram at position i of the worker result socket is one on_worker
\* will accept, from worker pid
AcceptedFrom(i, pid) == Kept(worker_watch[i]) /\ worker_watch[i].pid = pid

(***************************************************************************)
(* C37.  Every completion datagram the broker will accept from a worker    *)
(* was sent for the event attached to that worker: the worker has an event *)
(* attached, its subprocess has published that very event and is not at    *)
(* work on a device, and no second datagram of that worker is pending.  So *)
(* on_worker frees only events of workers that have finished them, and    *)
(* marks no worker Idle whose subprocess is at work.                       *)
(***************************************************************************)
C37_CompletionsMatchDispatches ==
    /\ [](\A i \in 1..Len(worker_watch), pid \in DOMAIN workers :
            AcceptedFrom(i, pid) =>
                /\ workers[pid].event # NO_EVENT
                /\ workers[pid].event \in published
                /\ workers[pid].state # WORKER_IDLE
                /\ child[pid].st # "run"
                /\ \A j \in 1..Len(worker_watch) :
                        AcceptedFrom(j, pid) => j = i)
    /\ [][BlockStep("worker") =>
            \A pid \in DOMAIN workers :
                /\ workers'[pid].event # workers[pid].event =>
                        /\ workers[pid].event \in published
                        /\ workers'[pid].event = NO_EVENT
                        /\ child[pid].st # "run"
                /\ (workers[pid].state # WORKER_IDLE
                        /\ workers'[pid].state = WORKER_IDLE) =>
                            child[pid].st # "run"]_vars

\* on_worker is about to read the completion of one worker while the
\* subprocess of another worker is still at work on its event
C37_Witness ==
    /\ pc = "worker"
    /\ \E i \in 1..Len(worker_watch), pid \in DOMAIN workers :
        /\ AcceptedFrom(i, pid)
        /\ workers[pid].state = WORKER_RUNNING
    /\ \E pid \in DOMAIN workers :
        /\ workers[pid].state = WORKER_RUNNING
        /\ child[pid].st = "run"

(***************************************************************************)
(* SpecSeq: the event queue alone, as SpecBusy, with the seqnums the       *)
(* devices carry: increasing, with gaps, and 0 for a first device without  *)
(* a SEQNUM property (udev_device_get_seqnum).                             *)
(***************************************************************************)
LastSeqnum ==
    IF event_list = <<>> THEN -1 ELSE event_list[Len(event_list)].seqnum

SeqInsert ==
    /\ nl_recv < MaxBusy
    /\ \E dev \in BusyDevices, seqnum \in 0..MaxBusy :
        /\ seqnum > LastSeqnum
        /\ seqnum >= nl_recv
        /\ event_list' = event_queue_insert(event_list, dev, seqnum)
    /\ nl_recv' = nl_recv + 1
    /\ UNCHANGED <<workers, arg_children_max, stop_exec_queue, reload,
                   udev_exit, rules, monitor, queue_file, properties_list, pc,
                   ev, kernel_sent, worker_watch, child, sigpending,
                   ctrl_queue, inotify_queue, inputs, histVars, wproc>>

NextSeq == SeqInsert \/ BusyRemove \/ BusyScan

SpecSeq == InitBusy /\ [][NextSeq]_vars

(***************************************************************************)
(* C38.  An event is never blocked by itself: is_devpath_busy reports the  *)
(* event at the head of the event list not busy, whatever seqnum it        *)
(* carries (0 included) and whatever its delaying_seqnum holds.            *)
(***************************************************************************)
C38_HeadNeverBlocked ==
    event_list # <<>> => ~is_devpath_busy(event_list, event_list[1]).ret

\* what does hold: the head is reported busy only when it carries seqnum 0
C38_HeadBlockedOnlyAtZero ==
    (event_list # <<>> /\ is_devpath_busy(event_list, event_list[1]).ret) =>
        event_list[1].seqnum = 0

(***************************************************************************)
(* SpecReap: SpecLive started with one more child of the daemon alive that *)
(* is in no worker record: the subprocess of a worker_spawn whose          *)
(* worker_new failed after the fork.  It has handled its device and waits; *)
(* the broker has dispatched that event again and is idle.                 *)
(***************************************************************************)
UntrackedPid == MaxChildren

InitReap ==
    /\ event_list = <<>>
    /\ workers = <<>>
    /\ arg_children_max \in 1..MaxChildren
    /\ stop_exec_queue = FALSE
    /\ reload = FALSE
    /\ udev_exit = FALSE
    /\ rules = TRUE
    /\ monitor = TRUE
    /\ queue_file = FALSE
    /\ properties_list = <<>>
    /\ pc = "top"
    /\ ev = {}
    /\ kernel_sent = <<>>
    /\ nl_recv = 0
    /\ worker_watch = <<>>
    /\ child = [p \in {UntrackedPid} |-> Child("wait", NO_EVENT, <<>>, {}, "none")]
    /\ sigpending = {}
    /\ ctrl_queue = <<>>
    /\ inotify_queue = <<>>
    /\ inputs = 0
    /\ started = <<>>
    /\ pass = "none"
    /\ reaped = <<>>
    /\ published = {}
    /\ wproc = NotForked

SpecReap == InitReap /\ [][NextLive]_vars /\ Fairness

\* this step is the SIGCHLD handling
SigchldStep == pc = "signal" /\ "SIGCHLD" \in sigpending /\ "SIGCHLD" \notin sigpending'

(***************************************************************************)
(* C39.  One SIGCHLD handling reaps every child that has exited by then,   *)
(* also when a pid waitpid returns is in no worker record; and every       *)
(* worker whose subprocess has exited is eventually removed from the       *)
(* worker map.                                                             *)
(***************************************************************************)
C39_ExitedWorkersReaped ==
    /\ [][SigchldStep =>
            \A pid \in Zombies(child) :
                pid \notin DOMAIN child' /\ pid \notin DOMAIN workers']_vars
    /\ \A pid \in PIDS :
        (pid \in DOMAIN workers /\ pid \in Zombies(child)) ~>
            (pid \notin DOMAIN workers \/ pc = "stopped")

(***************************************************************************)
(* C40.  No event is dispatched while the compiled rule set is absent: a   *)
(* step that dispatches an event or spawns a worker ends with the rules    *)
(* loaded, and a "start new events" block that ends without the rules      *)
(* (loading failed) leaves every event as it was, Queued events Queued,    *)
(* and creates no worker and no subprocess.                                *)
(***************************************************************************)
C40_NoDispatchWithoutRules ==
    [][/\ (started' # started \/ ~(DOMAIN workers' \subseteq DOMAIN workers)
            \/ ~(DOMAIN child' \subseteq DOMAIN child)) => rules'
       /\ (BlockStep("start") /\ ~rules') =>
            /\ event_list' = event_list
            /\ workers' = workers
            /\ child' = child
            /\ started' = started]_vars

\* a reload dropped the rules, the queue may start and holds a Queued event,
\* and the "start new events" block has just ended with the rules still
\* absent: loading them failed
C40_Witness ==
    /\ ~rules
    /\ pc = AfterStart
    /\ pass = "none"
    /\ may_start(event_list, udev_exit, stop_exec_queue)
    /\ \E k \in 1..Len(event_list) : event_list[k].state = EVENT_QUEUED

=============================================================================
